---- MODULE Spec2Model ----
(***************************************************************************)
(* The KMR image codec of quIiIettt/compre: nodal transform, Paeth         *)
(* predictor, QOI codec, delta + run-length + canonical Huffman codec,     *)
(* binary container, and the encode / decode pipelines built from them.    *)
(*                                                                         *)
(* An image is a record [width, height, data] whose data is the row-major  *)
(* sequence of its pixels, each pixel the tuple <<r, g, b, a>> of the four *)
(* bytes the source keeps consecutively in a Uint8ClampedArray.  Byte      *)
(* buffers (QOI stream, Huffman payload, container) are sequences of       *)
(* 0..255; the source's 0-based offset p is element p + 1.                 *)
(*                                                                         *)
(* A function that can throw returns a record with ok = FALSE and the      *)
(* error in place of its result.                                           *)
(*                                                                         *)
(* Integers of the model stay below 2^31: widths, heights, lengths and     *)
(* Huffman codes (at most 30 bits) are far smaller in every scenario, so   *)
(* the source's 32-bit conversions (| << >> on numbers, setUint32) are the *)
(* identity on them.                                                       *)
(***************************************************************************)
EXTENDS Integers, Sequences, FiniteSets, TLC

VARIABLES
  pc,             \* position of the scenario: which call has returned last
  imageData,      \* the RGBA image handed to the encoder
  blockSize,      \* encode parameter, as the host passes it
  discardBits,    \* encode parameter, as the host passes it
  smooth,         \* encode parameter
  processed,      \* ProcessResult of processImageFrame
  residual,       \* the Paeth residual image
  qoiBytes,       \* the QOI stream of the residual image
  huffmanY,       \* Huffman payload of nodalPointsY
  huffmanCb,      \* Huffman payload of nodalPointsCb
  huffmanCr,      \* Huffman payload of nodalPointsCr
  container,      \* the container bytes
  decoded,        \* what the decoder under study returned (or its error)
  nodal,          \* the number[] handed to encodeHuffman
  expectedLength, \* the expectedLength handed to decodeHuffman
  input,          \* the ContainerInput handed to buildContainer
  tamper,         \* what was done to the encoded bytes before decoding
  page,           \* the single-image page: React state and pending callbacks
  qoi,            \* encodeQOI and decodeQOI loop by loop: their local variables
  batch,          \* the batch page: React state and the processQueue runs
  log             \* POST /api/log-csv: the log file and the handlers in progress

vars == <<pc, imageData, blockSize, discardBits, smooth, processed, residual,
          qoiBytes, huffmanY, huffmanCb, huffmanCr, container, decoded,
          nodal, expectedLength, input, tamper, page, qoi, batch, log>>

(***************************************************************************)
(* Bounds of the model.                                                    *)
(***************************************************************************)
\* images have at most MaxPixels pixels, in every shape width x height
MaxPixels == 4
\* pixels are drawn from the first so many colours of each scenario's list
QoiNumColors == 5
PaethNumColors == 4
PipelineNumColors == 3
\* number[] inputs of encodeHuffman have at most MaxSeqLen entries
MaxSeqLen == 4
\* each payload section of a ContainerInput has at most MaxSectionLen bytes
MaxSectionLen == 1

\* images the user selects on the page, and changes of the block size slider
MaxSelections == 2

MaxParamChanges == 1

\* clicks on the batch page: file selections, Start batch, Reset
MaxBatchSelections == 2

MaxBatchStarts == 2

MaxBatchResets == 1
\* POST /api/log-csv requests
MaxLogRequests == 2

(***************************************************************************)
(* Arithmetic helpers for the JavaScript operators the source uses.        *)
(***************************************************************************)
Abs(x) == IF x < 0 THEN -x ELSE x

Min(a, b) == IF a <= b THEN a ELSE b

Max(a, b) == IF a >= b THEN a ELSE b

\* (x << 24) >> 24: the low byte of x read as a signed 8-bit integer
SignExt8(x) == LET m == x % 256 IN IF m >= 128 THEN m - 256 ELSE m

\* the four bytes of (n >> 24) & 0xFF, (n >> 16) & 0xFF, (n >> 8) & 0xFF, n & 0xFF
U32BE(n) == << (n \div 16777216) % 256, (n \div 65536) % 256, (n \div 256) % 256, n % 256 >>

\* DataView.getUint32(offset, false): big-endian u32 at 0-based offset
GetU32(bytes, offset) ==
  bytes[offset + 1] * 16777216 + bytes[offset + 2] * 65536
    + bytes[offset + 3] * 256 + bytes[offset + 4]

\* bytes[p] of a typed array, 0-based
At(bytes, p) == bytes[p + 1]

\* Uint8Array.prototype.slice(from, to), 0-based, clipped to the buffer
Slice(bytes, from, to) ==
  LET lo == Min(from, Len(bytes))
      hi == Min(to, Len(bytes))
  IN  IF hi <= lo THEN << >> ELSE SubSeq(bytes, lo + 1, hi)

Zeros(n) == [i \in 1..n |-> 0]

\* a loop of at most n passes: Step applied n times to s, the first half of
\* the passes computed before the second; a Step leaves a finished state
\* as it is
RECURSIVE Iterate(_, _, _)
Iterate(Step(_), s, n) ==
  IF n <= 0 THEN s
  ELSE IF n = 1 THEN Step(s)
  ELSE LET half == Iterate(Step, s, n \div 2)
       IN  IF half = half THEN Iterate(Step, half, n - n \div 2) ELSE half

(***************************************************************************)
(* QOI codec (utils/qoi.ts).                                               *)
(***************************************************************************)
QOI_OP_INDEX == 0
QOI_OP_DIFF == 64
QOI_OP_LUMA == 128
QOI_OP_RUN == 192
QOI_OP_RGB == 254
QOI_OP_RGBA == 255
QOI_MASK_2 == 192

qoiHash(r, g, b, a) == (r * 3 + g * 5 + b * 7 + a * 11) % 64

PixelHash(c) == qoiHash(c[1], c[2], c[3], c[4])

\* the 14 header bytes: "qoif", width, height (big endian), channels 4, colorspace 0
QoiHeader(width, height) ==
  <<113, 111, 105, 102>> \o U32BE(width) \o U32BE(height) \o <<4, 0>>

\* the op written for pixel c after previous pixel px when c is in no run
\* and not in the index: DIFF, LUMA, RGB (alpha unchanged) or RGBA
QoiOpBytes(px, c) ==
  IF c[4] = px[4]
  THEN LET vg_r == SignExt8(c[1] - px[1])
           vg_g == SignExt8(c[2] - px[2])
           vg_b == SignExt8(c[3] - px[3])
       IN  IF /\ vg_r > -3 /\ vg_r < 2
              /\ vg_g > -3 /\ vg_g < 2
              /\ vg_b > -3 /\ vg_b < 2
           THEN << QOI_OP_DIFF + (vg_r + 2) * 16 + (vg_g + 2) * 4 + (vg_b + 2) >>
           ELSE LET vg_dr == SignExt8(vg_r - vg_g)
                    vg_db == SignExt8(vg_b - vg_g)
                IN  IF /\ vg_g > -33 /\ vg_g < 32
                       /\ vg_dr > -9 /\ vg_dr < 8
                       /\ vg_db > -9 /\ vg_db < 8
                    THEN << QOI_OP_LUMA + (vg_g + 32), (vg_dr + 8) * 16 + (vg_db + 8) >>
                    ELSE << QOI_OP_RGB, c[1], c[2], c[3] >>
  ELSE << QOI_OP_RGBA, c[1], c[2], c[3], c[4] >>

\* an encoder iteration that writes a run op before every pixel that
\* differs from its predecessor, a run pending or not
QoiEncodeStepFlushAlways(s, c) ==
  IF c = s.px
  THEN IF s.run + 1 = 62
       THEN [s EXCEPT !.run = 0, !.bytes = Append(@, QOI_OP_RUN + 61)]
       ELSE [s EXCEPT !.run = @ + 1]
  ELSE LET flushed == Append(s.bytes, (QOI_OP_RUN + (s.run - 1)) % 256)
           indexPos == PixelHash(c)
       IN  IF s.index[indexPos] = c
           THEN [px |-> c, run |-> 0, index |-> s.index,
                 bytes |-> Append(flushed, QOI_OP_INDEX + indexPos)]
           ELSE [px |-> c, run |-> 0,
                 index |-> [s.index EXCEPT ![indexPos] = c],
                 bytes |-> flushed \o QoiOpBytes(s.px, c)]

\* an encoder iteration that lets a run grow to 64 pixels before writing it
QoiEncodeStepRun64(s, c) ==
  IF c = s.px
  THEN IF s.run + 1 = 64
       THEN [s EXCEPT !.run = 0, !.bytes = Append(@, QOI_OP_RUN + 63)]
       ELSE [s EXCEPT !.run = @ + 1]
  ELSE LET flushed == IF s.run > 0
                      THEN Append(s.bytes, QOI_OP_RUN + (s.run - 1))
                      ELSE s.bytes
           indexPos == PixelHash(c)
       IN  IF s.index[indexPos] = c
           THEN [px |-> c, run |-> 0, index |-> s.index,
                 bytes |-> Append(flushed, QOI_OP_INDEX + indexPos)]
           ELSE [px |-> c, run |-> 0,
                 index |-> [s.index EXCEPT ![indexPos] = c],
                 bytes |-> flushed \o QoiOpBytes(s.px, c)]

\* one iteration of the encoder's pixel loop on pixel c;
\* s = [px, run, index, bytes] is the encoder state before it
QoiEncodeStep(s, c) ==
  IF c = s.px
  THEN IF s.run + 1 = 62
       THEN [s EXCEPT !.run = 0, !.bytes = Append(@, QOI_OP_RUN + 61)]
       ELSE [s EXCEPT !.run = @ + 1]
  ELSE LET flushed == IF s.run > 0
                      THEN Append(s.bytes, QOI_OP_RUN + (s.run - 1))
                      ELSE s.bytes
           indexPos == PixelHash(c)
       IN  IF s.index[indexPos] = c
           THEN [px |-> c, run |-> 0, index |-> s.index,
                 bytes |-> Append(flushed, QOI_OP_INDEX + indexPos)]
           ELSE [px |-> c, run |-> 0,
                 index |-> [s.index EXCEPT ![indexPos] = c],
                 bytes |-> flushed \o QoiOpBytes(s.px, c)]

\* the encoder's locals before the pixel loop: the header is written
QoiEncoderStart(img) ==
  [px |-> <<0, 0, 0, 255>>, run |-> 0,
   index |-> [i \in 0..63 |-> <<0, 0, 0, 0>>],
   bytes |-> QoiHeader(img.width, img.height)]

QoiEndMarker == <<0, 0, 0, 0, 0, 0, 0, 1>>

\* after the loop: a pending run is written, then the end marker
QoiEncoderFinish(s) ==
  (IF s.run > 0 THEN Append(s.bytes, QOI_OP_RUN + (s.run - 1)) ELSE s.bytes)
    \o QoiEndMarker

RECURSIVE QoiEncodeLoop(_, _, _)
QoiEncodeLoop(pixels, k, s) ==
  IF k > Len(pixels) THEN s
  ELSE QoiEncodeLoop(pixels, k + 1, QoiEncodeStep(s, pixels[k]))

encodeQOI(img) ==
  QoiEncoderFinish(QoiEncodeLoop(SubSeq(img.data, 1, img.width * img.height), 1,
                                 QoiEncoderStart(img)))

\* the decoder's loop guard: pixels remain to be produced and p has not
\* reached the last 8 bytes of the stream
QoiDecodeContinues(bytes, total, s) ==
  s.pxPos < total /\ s.p < Len(bytes) - 8

\* the pixel an op byte b1 at offset p yields, with the bytes it consumed
\* and the run it starts; px is the previous pixel
QoiReadOp(bytes, p, px, index) ==
  LET b1 == At(bytes, p) IN
  IF b1 = QOI_OP_RGB
  THEN [px |-> <<At(bytes, p + 1), At(bytes, p + 2), At(bytes, p + 3), px[4]>>,
        p |-> p + 4, run |-> 0]
  ELSE IF b1 = QOI_OP_RGBA
  THEN [px |-> <<At(bytes, p + 1), At(bytes, p + 2), At(bytes, p + 3), At(bytes, p + 4)>>,
        p |-> p + 5, run |-> 0]
  ELSE LET tag == (b1 \div 64) * 64 IN
       IF tag = QOI_OP_INDEX
       THEN [px |-> index[b1 % 64], p |-> p + 1, run |-> 0]
       ELSE IF tag = QOI_OP_DIFF
       THEN [px |-> << (px[1] + ((b1 \div 16) % 4) - 2 + 256) % 256,
                       (px[2] + ((b1 \div 4) % 4) - 2 + 256) % 256,
                       (px[3] + (b1 % 4) - 2 + 256) % 256,
                       px[4] >>,
             p |-> p + 1, run |-> 0]
       ELSE IF tag = QOI_OP_LUMA
       THEN LET b2 == At(bytes, p + 1)
                vg == (b1 % 64) - 32
                dr == ((b2 \div 16) % 16) - 8
                db == (b2 % 16) - 8
            IN  [px |-> << (px[1] + vg + dr + 256) % 256,
                           (px[2] + vg + 256) % 256,
                           (px[3] + vg + db + 256) % 256,
                           px[4] >>,
                 p |-> p + 2, run |-> 0]
       ELSE [px |-> px, p |-> p + 1, run |-> b1 % 64]

\* the decoder's locals before its loop, p after the 14 header bytes
QoiDecoderStart ==
  [p |-> 14, pxPos |-> 0, px |-> <<0, 0, 0, 255>>, run |-> 0,
   index |-> [i \in 0..63 |-> <<0, 0, 0, 0>>], pixels |-> << >>]

\* a decoder iteration that never stores the pixel in its index
QoiDecodeStepNoIndexWrite(bytes, s) ==
  IF s.run > 0
  THEN [s EXCEPT !.run = @ - 1, !.pxPos = @ + 1, !.pixels = Append(@, s.px)]
  ELSE LET op == QoiReadOp(bytes, s.p, s.px, s.index)
       IN  [p |-> op.p, pxPos |-> s.pxPos + 1, px |-> op.px, run |-> op.run,
            index |-> s.index, pixels |-> Append(s.pixels, op.px)]

\* one iteration of the decoder's loop; s = [p, pxPos, px, run, index, pixels]
QoiDecodeStep(bytes, s) ==
  IF s.run > 0
  THEN [s EXCEPT !.run = @ - 1, !.pxPos = @ + 1, !.pixels = Append(@, s.px)]
  ELSE LET op == QoiReadOp(bytes, s.p, s.px, s.index)
       IN  [p |-> op.p, pxPos |-> s.pxPos + 1, px |-> op.px, run |-> op.run,
            index |-> [s.index EXCEPT ![PixelHash(op.px)] = op.px],
            pixels |-> Append(s.pixels, op.px)]

RECURSIVE QoiDecodeLoop(_, _, _)
QoiDecodeLoop(bytes, total, s) ==
  IF QoiDecodeContinues(bytes, total, s)
  THEN QoiDecodeLoop(bytes, total, QoiDecodeStep(bytes, s))
  ELSE s

QoiError(msg) == [ok |-> FALSE, error |-> msg, width |-> 0, height |-> 0, data |-> << >>]

decodeQOI(bytes) ==
  IF Len(bytes) < 14 + 8 THEN QoiError("QOI stream too small")
  ELSE IF SubSeq(bytes, 1, 4) # <<113, 111, 105, 102>> THEN QoiError("Invalid QOI magic")
  ELSE LET width == GetU32(bytes, 4)
           height == GetU32(bytes, 8)
           channels == At(bytes, 12)
           total == width * height
       IN  IF channels # 4 THEN QoiError("Only RGBA QOI is supported")
           ELSE LET s == QoiDecodeLoop(bytes, total, QoiDecoderStart)
                IN  [ok |-> TRUE, error |-> "", width |-> width, height |-> height,
                     \* pixels the loop never reached keep the array's initial zeros
                     data |-> s.pixels \o [i \in 1..(total - s.pxPos) |-> <<0, 0, 0, 0>>]]

(***************************************************************************)
(* Paeth predictor: forward in api/compress/route.ts, inverse in           *)
(* utils/decode.ts.                                                        *)
(***************************************************************************)
\* the predictor the encoder defines inside buildResidualImage
paethForward(cA, cB, cC) ==
  LET p == cA + cB - cC
      pa == Abs(p - cA)
      pb == Abs(p - cB)
      pc0 == Abs(p - cC)
  IN  IF pa <= pb /\ pa <= pc0 THEN cA
      ELSE IF pb <= pc0 THEN cB
      ELSE cC

\* a predictor that never returns the up-left neighbour; the inverse pass
\* built on it disagrees with the forward pass wherever that one chose c
paethLeftOrUp(a, b, c) ==
  LET p == a + b - c
      pa == Abs(p - a)
      pb == Abs(p - b)
  IN  IF pa <= pb THEN a ELSE b

\* the predictor of the decoder module
paeth(a, b, c) ==
  LET p == a + b - c
      pa == Abs(p - a)
      pb == Abs(p - b)
      pc0 == Abs(p - c)
  IN  IF pa <= pb /\ pa <= pc0 THEN a
      ELSE IF pb <= pc0 THEN b
      ELSE c

\* channel c (1..3) of the left, up and up-left neighbours of the pixel at
\* 0-based position k in the pixel sequence src of an image width wide;
\* a missing neighbour counts as 0
NeighbourANone(src, width, k, c) == 0

NeighbourA(src, width, k, c) == IF k % width > 0 THEN src[k][c] ELSE 0

NeighbourB(src, width, k, c) == IF k \div width > 0 THEN src[k + 1 - width][c] ELSE 0

NeighbourC(src, width, k, c) ==
  IF k % width > 0 /\ k \div width > 0 THEN src[k - width][c] ELSE 0

buildResidualImage(img) ==
  LET pred(k, c) == paethForward(NeighbourA(img.data, img.width, k, c),
                                 NeighbourB(img.data, img.width, k, c),
                                 NeighbourC(img.data, img.width, k, c))
  IN  [width |-> img.width, height |-> img.height,
       data |-> [i \in 1..(img.width * img.height) |->
                   << (img.data[i][1] - pred(i - 1, 1) + 256) % 256,
                      (img.data[i][2] - pred(i - 1, 2) + 256) % 256,
                      (img.data[i][3] - pred(i - 1, 3) + 256) % 256,
                      img.data[i][4] >>]]

\* the pixel the inverse writes at 0-based position k, from the residual
\* pixel and the pixels out already reconstructed
PaethDecodePixel(res, out, k) ==
  LET pred(c) == paeth(NeighbourA(out, res.width, k, c),
                       NeighbourB(out, res.width, k, c),
                       NeighbourC(out, res.width, k, c))
  IN  << (res.data[k + 1][1] + pred(1)) % 256,
         (res.data[k + 1][2] + pred(2)) % 256,
         (res.data[k + 1][3] + pred(3)) % 256,
         res.data[k + 1][4] >>

RECURSIVE PaethDecodeLoop(_, _, _)
PaethDecodeLoop(res, out, k) ==
  IF k >= res.width * res.height THEN out
  ELSE PaethDecodeLoop(res, Append(out, PaethDecodePixel(res, out, k)), k + 1)

decodePaethResidual(res) ==
  [width |-> res.width, height |-> res.height,
   data |-> PaethDecodeLoop(res, << >>, 0)]

(***************************************************************************)
(* Huffman codec with its delta and run-length front end                   *)
(* (utils/huffman.ts).                                                     *)
(***************************************************************************)
RLE_MARKER == 255

\* the clamp of deltaEncode: Math.max(-128, Math.min(127, diff))
DeltaClamp(diff) == Max(-128, Min(127, diff))

\* a delta stage that biases the first difference only
deltaEncodeFirstBiased(data) ==
  [i \in 1..Len(data) |->
     IF i = 1 THEN (DeltaClamp(data[1]) + 128) % 256
     ELSE (DeltaClamp(data[i] - data[i - 1]) + 256) % 256]

deltaEncode(data) ==
  [i \in 1..Len(data) |->
     LET prev == IF i = 1 THEN 0 ELSE data[i - 1]
     IN  (DeltaClamp(data[i] - prev) + 128) % 256]

\* the run rleEncode measures at 1-based position i: equal bytes, at most 255
RECURSIVE RleRun(_, _, _)
RleRun(data, i, run) ==
  IF i + run <= Len(data) /\ data[i + run] = data[i] /\ run < 255
  THEN RleRun(data, i, run + 1)
  ELSE run

\* one pass of the while loop of rleEncode, s = [i, out] with i 1-based;
\* past the end of data nothing changes
RleEncodeStep(data, s) ==
  IF s.i > Len(data) THEN s
  ELSE LET value == data[s.i]
           run == RleRun(data, s.i, 1)
       IN  [i |-> s.i + run,
            out |-> s.out \o (IF run >= 3 \/ value = RLE_MARKER
                              THEN <<RLE_MARKER, run, value>>
                              ELSE [r \in 1..run |-> value])]

rleEncode(data) ==
  Iterate(LAMBDA s : RleEncodeStep(data, s), [i |-> 1, out |-> << >>], Len(data)).out

\* the keys of the frequency Map in insertion order: each byte of rle at
\* its first occurrence
FreqKeysStep(rle, s) ==
  IF s.i > Len(rle) THEN s
  ELSE [i |-> s.i + 1,
        keys |-> IF \E j \in 1..Len(s.keys) : s.keys[j] = rle[s.i]
                 THEN s.keys ELSE Append(s.keys, rle[s.i])]

FreqKeys(rle) ==
  Iterate(LAMBDA s : FreqKeysStep(rle, s), [i |-> 1, keys |-> << >>], Len(rle)).keys

FreqOf(rle, v) == Cardinality({i \in 1..Len(rle) : rle[i] = v})

\* insert x into the sequence q after every element e with Before(e, x)
\* leading q, i.e. at the first index whose element is not Before x
InsertAt(q, idx, x) == SubSeq(q, 1, idx) \o <<x>> \o SubSeq(q, idx + 1, Len(q))

\* Array.prototype.sort((a, b) => a.freq - b.freq): stable, ascending by freq
\* s = [i, sorted]: node i is inserted after the sorted nodes not above it
SortByFreqStep(nodes, s) ==
  IF s.i > Len(nodes) THEN s
  ELSE LET x == nodes[s.i]
           idx == Cardinality({j \in 1..Len(s.sorted) : s.sorted[j].freq <= x.freq})
       IN  [i |-> s.i + 1, sorted |-> InsertAt(s.sorted, idx, x)]

SortByFreq(nodes) ==
  Iterate(LAMBDA s : SortByFreqStep(nodes, s), [i |-> 1, sorted |-> << >>],
          Len(nodes)).sorted

\* one pass of the tree-building loop: take the two front nodes, insert
\* their parent before the first queued node whose freq is not below the
\* parent's
BuildTreeStep(queue) ==
  IF Len(queue) <= 1 THEN queue
  ELSE LET left == queue[1]
           right == queue[2]
           rest == SubSeq(queue, 3, Len(queue))
           parent == [freq |-> left.freq + right.freq, symbol |-> -1,
                      left |-> left, right |-> right]
           below == {j \in 1..Len(rest) : \A k \in 1..j : rest[k].freq < parent.freq}
           idx == Cardinality(below)
       IN  InsertAt(rest, idx, parent)

\* while (queue.length > 1): each pass shortens the queue by one node
BuildTree(queue) == Iterate(BuildTreeStep, queue, Len(queue) - 1)

\* walk(node, depth): the code length of every leaf, left subtree first
RECURSIVE Walk(_, _)
Walk(node, depth) ==
  IF node.symbol # -1
  THEN << [symbol |-> node.symbol, len |-> IF depth = 0 THEN 1 ELSE depth] >>
  ELSE Walk(node.left, depth + 1) \o Walk(node.right, depth + 1)

buildCodeLengths(rle) ==
  LET keys == FreqKeys(rle)
      leaves == [i \in 1..Len(keys) |->
                   [freq |-> FreqOf(rle, keys[i]), symbol |-> keys[i],
                    left |-> -1, right |-> -1]]
      queue == SortByFreq(leaves)
  IN  IF Len(queue) = 0 THEN << >>
      ELSE IF Len(queue) = 1 THEN << [symbol |-> queue[1].symbol, len |-> 1] >>
      ELSE Walk(BuildTree(queue)[1], 0)

\* the canonical order: a.len === b.len ? a.symbol - b.symbol : a.len - b.len
CanonicalBefore(a, b) ==
  IF a.len = b.len THEN a.symbol <= b.symbol ELSE a.len < b.len

\* s = [i, sorted]: entry i is inserted after the sorted entries before it
SortCanonicalStep(codeLens, s) ==
  IF s.i > Len(codeLens) THEN s
  ELSE LET x == codeLens[s.i]
           idx == Cardinality({j \in 1..Len(s.sorted) : CanonicalBefore(s.sorted[j], x)})
       IN  [i |-> s.i + 1, sorted |-> InsertAt(s.sorted, idx, x)]

SortCanonical(codeLens) ==
  Iterate(LAMBDA s : SortCanonicalStep(codeLens, s), [i |-> 1, sorted |-> << >>],
          Len(codeLens)).sorted

\* one pass of the loop that assigns the canonical codes, codes holding
\* those of the entries before: code = 0 for the first entry,
\* (code + 1) << (len - prevLen) after it
CanonicalCodeStep(codeLens, codes) ==
  LET i == Len(codes) + 1
  IN  IF i > Len(codeLens) THEN codes
      ELSE IF i = 1 THEN <<0>>
      ELSE Append(codes, (codes[i - 1] + 1) * 2 ^ (codeLens[i].len - codeLens[i - 1].len))

\* the canonical code of every entry of the sorted table
CanonicalCodes(codeLens) ==
  Iterate(LAMBDA codes : CanonicalCodeStep(codeLens, codes), << >>, Len(codeLens))

\* the bits of code c of length l, most significant first
CodeBits(c, l) == [b \in 1..l |-> (c \div 2 ^ (l - b)) % 2]

\* s = [i, bits]: the code bits of rle[i] are appended
PackBitsStep(rle, codeLens, codes, s) ==
  IF s.i > Len(rle) THEN s
  ELSE LET k == CHOOSE j \in 1..Len(codeLens) : codeLens[j].symbol = rle[s.i]
       IN  [i |-> s.i + 1, bits |-> s.bits \o CodeBits(codes[k], codeLens[k].len)]

\* all code bits of rle, in order
PackBits(rle, codeLens, codes) ==
  Iterate(LAMBDA s : PackBitsStep(rle, codeLens, codes, s), [i |-> 1, bits |-> << >>],
          Len(rle)).bits

\* the bytes the accumulator emits: 8 bits each, the last one shifted left
\* by the missing bits (zero padding)
BitsToBytes(bits) ==
  LET n == (Len(bits) + 7) \div 8
      bit(k) == IF k <= Len(bits) THEN bits[k] ELSE 0
  IN  [j \in 1..n |->
         bit(8 * j - 7) * 128 + bit(8 * j - 6) * 64 + bit(8 * j - 5) * 32
           + bit(8 * j - 4) * 16 + bit(8 * j - 3) * 8 + bit(8 * j - 2) * 4
           + bit(8 * j - 1) * 2 + bit(8 * j)]

\* the header: the entry count stored in one byte, then (symbol, len) pairs
HuffmanHeaderPairs(codeLens) ==
  [j \in 1..(2 * Len(codeLens)) |->
     IF j % 2 = 1 THEN codeLens[(j + 1) \div 2].symbol % 256
     ELSE codeLens[j \div 2].len % 256]

encodeHuffman(data) ==
  IF Len(data) = 0 THEN << >>
  ELSE LET deltas == deltaEncode(data)
           rle == rleEncode(deltas)
           codeLens == SortCanonical(buildCodeLengths(rle))
       IN  <<Len(codeLens) % 256>> \o HuffmanHeaderPairs(codeLens)
             \o BitsToBytes(PackBits(rle, codeLens, CanonicalCodes(codeLens)))

MAX_CODE_LEN == 32

HuffmanError(msg) == [ok |-> FALSE, error |-> msg, out |-> << >>]

HuffmanResult(out) == [ok |-> TRUE, error |-> "", out |-> out]

\* the (symbol, len) entries the decoder reads after the count byte
HuffmanReadHeader(data, count) ==
  [i \in 1..count |-> [symbol |-> At(data, 2 * i - 1), len |-> At(data, 2 * i)]]

\* lenCounts[len]: the entries of that length
LenCount(codeLens, len) == Cardinality({i \in 1..Len(codeLens) : codeLens[i].len = len})

\* the loop that fills minCode, maxCode and valPtr from the sorted entries;
\* t = [minCode, maxCode, valPtr], each a function on 0..31 initialised to -1.
\* A length of 32 or more has no slot in the three arrays (the stores are
\* dropped), and past 32 lenCounts has none either, which ends the loop.
RECURSIVE HuffmanTables(_, _, _, _, _, _)
HuffmanTables(codeLens, i, currentCode, currentLen, symbolOffset, t) ==
  IF i > Len(codeLens) THEN t
  ELSE LET len == codeLens[i].len
           shifted == IF currentLen < len
                      THEN currentCode * 2 ^ (len - currentLen)
                      ELSE currentCode
           countForLen == LenCount(codeLens, len)
       IN  IF len >= MAX_CODE_LEN THEN t
           ELSE HuffmanTables(codeLens, i + countForLen, shifted + countForLen,
                              Max(currentLen, len), symbolOffset + countForLen,
                              [minCode |-> [t.minCode EXCEPT ![len] = shifted],
                               maxCode |-> [t.maxCode EXCEPT ![len] = shifted + countForLen - 1],
                               valPtr |-> [t.valPtr EXCEPT ![len] = symbolOffset]])

\* the refill loop: shift whole bytes into the 32-bit accumulator while
\* fewer than 24 bits are buffered and bytes remain;
\* s = [p, accumulator, bitsAvailable].  At most 31 bits are ever buffered
\* and only buffered bits are read, so the model keeps bits 0..30 of the
\* accumulator: the low 23 bits shifted, then the new byte
RECURSIVE HuffmanRefill(_, _)
HuffmanRefill(data, s) ==
  IF s.bitsAvailable < 24 /\ s.p < Len(data)
  THEN HuffmanRefill(data, [p |-> s.p + 1,
                            accumulator |-> (s.accumulator % 8388608) * 256 + At(data, s.p),
                            bitsAvailable |-> s.bitsAvailable + 8])
  ELSE s

\* bit (accumulator >>> n) & 1, n <= 30
AccumulatorBit(accumulator, n) == (accumulator \div 2 ^ n) % 2

\* the inner while (true) loop: read one bit at a time until the code
\* falls in the range of its length, the buffered bits run out, or 30 bits
\* were read
RECURSIVE HuffmanReadSymbol(_, _, _, _, _, _)
HuffmanReadSymbol(t, symbols, accumulator, bitsAvailable, curLen0, curCode0) ==
  LET curLen == curLen0 + 1 IN
  IF bitsAvailable = 0
  THEN [found |-> FALSE, sym |-> 0, bitsAvailable |-> bitsAvailable]
  ELSE LET left == bitsAvailable - 1
           curCode == curCode0 * 2 + AccumulatorBit(accumulator, left)
       IN  IF t.maxCode[curLen] # -1 /\ curCode <= t.maxCode[curLen]
           THEN LET symbolIndex == t.valPtr[curLen] + (curCode - t.minCode[curLen])
                IN  [found |-> TRUE,
                     \* a read outside symbols is undefined, stored as 0
                     sym |-> IF symbolIndex >= 0 /\ symbolIndex < Len(symbols)
                             THEN symbols[symbolIndex + 1] ELSE 0,
                     bitsAvailable |-> left]
           ELSE IF curLen >= 30
                THEN [found |-> FALSE, sym |-> 0, bitsAvailable |-> left]
                ELSE HuffmanReadSymbol(t, symbols, accumulator, left, curLen, curCode)

\* the main decode loop: the run-length symbols read from the bitstream;
\* s = [p, accumulator, bitsAvailable], rle the symbols decoded so far
RECURSIVE HuffmanDecodeLoop(_, _, _, _, _, _, _)
HuffmanDecodeLoop(data, t, symbols, startLen, limit, s, rle) ==
  IF ~(s.p < Len(data) \/ s.bitsAvailable > 0) THEN rle
  ELSE LET f == HuffmanRefill(data, s) IN
       IF f.bitsAvailable < startLen /\ f.p >= Len(data) THEN rle
       ELSE LET r == HuffmanReadSymbol(t, symbols, f.accumulator, f.bitsAvailable, 0, 0)
            IN  IF ~r.found THEN rle
                ELSE IF Len(rle) + 1 >= limit THEN Append(rle, r.sym)
                ELSE HuffmanDecodeLoop(data, t, symbols, startLen, limit,
                                       [f EXCEPT !.bitsAvailable = r.bitsAvailable],
                                       Append(rle, r.sym))

\* the bits the main decode loop has not read, before each of its
\* iterations and after the last: 8 per byte past p plus the buffered bits
RECURSIVE HuffmanUnreadBits(_, _, _, _, _, _, _)
HuffmanUnreadBits(data, t, symbols, startLen, limit, s, rlePos) ==
  LET unread == 8 * Max(0, Len(data) - s.p) + s.bitsAvailable IN
  IF ~(s.p < Len(data) \/ s.bitsAvailable > 0) THEN <<unread>>
  ELSE LET f == HuffmanRefill(data, s) IN
       IF f.bitsAvailable < startLen /\ f.p >= Len(data) THEN <<unread>>
       ELSE LET r == HuffmanReadSymbol(t, symbols, f.accumulator, f.bitsAvailable, 0, 0)
                after == 8 * Max(0, Len(data) - f.p) + r.bitsAvailable
            IN  IF ~r.found \/ rlePos + 1 >= limit THEN <<unread, after>>
                ELSE <<unread>> \o HuffmanUnreadBits(data, t, symbols, startLen, limit,
                                                     [f EXCEPT !.bitsAvailable = r.bitsAvailable],
                                                     rlePos + 1)

\* prevVal + (byte - 128) clamped to 0..255
DeltaDecode(prevVal, byte) == Max(0, Min(255, prevVal + (byte - 128)))

\* the values a run of `run` deltas v appends to out, never past expected
RECURSIVE RleApplyRun(_, _, _, _, _)
RleApplyRun(out, prevVal, run, v, expected) ==
  IF run = 0 \/ Len(out) >= expected THEN out
  ELSE LET pixel == DeltaDecode(prevVal, v)
       IN  RleApplyRun(Append(out, pixel), pixel, run - 1, v, expected)

\* the fused run-length + delta decode loop over the rlePos symbols
\* decoded; i is the 0-based loop index
RECURSIVE RleDeltaDecode(_, _, _, _)
RleDeltaDecode(rle, i, out, expected) ==
  IF i >= Len(rle) \/ Len(out) >= expected THEN out
  ELSE LET val == rle[i + 1]
           prevVal == IF out = << >> THEN 0 ELSE out[Len(out)]
       IN  IF val = RLE_MARKER
           THEN IF i + 2 >= Len(rle) THEN out
                ELSE RleDeltaDecode(rle, i + 3,
                                    RleApplyRun(out, prevVal, rle[i + 2], rle[i + 3], expected),
                                    expected)
           ELSE RleDeltaDecode(rle, i + 1, Append(out, DeltaDecode(prevVal, val)), expected)

decodeHuffman(data, expected) ==
  IF Len(data) = 0 \/ expected = 0 THEN HuffmanResult(<< >>)
  ELSE LET count == At(data, 0) IN
       \* codeLens[0].len of an empty table
       IF count = 0 THEN HuffmanError("TypeError: codeLens[0] is undefined")
       \* a header cut short leaves p past the end of data: the decode loop
       \* never runs, whatever the tables hold, and the zeroed buffer is returned
       ELSE IF 1 + 2 * count > Len(data) THEN HuffmanResult(Zeros(expected))
       ELSE LET codeLens == SortCanonical(HuffmanReadHeader(data, count))
                symbols == [i \in 1..count |-> codeLens[i].symbol]
                none == [l \in 0..(MAX_CODE_LEN - 1) |-> -1]
                t == HuffmanTables(codeLens, 1, 0, codeLens[1].len, 0,
                                   [minCode |-> none, maxCode |-> none, valPtr |-> none])
                rle == HuffmanDecodeLoop(data, t, symbols, codeLens[1].len, expected * 2,
                                         [p |-> 1 + 2 * count, accumulator |-> 0,
                                          bitsAvailable |-> 0],
                                         << >>)
                out == RleDeltaDecode(rle, 0, << >>, expected)
            IN  HuffmanResult(out \o Zeros(expected - Len(out)))

(***************************************************************************)
(* Container (utils/container.ts).                                         *)
(***************************************************************************)
CONTAINER_MAGIC == <<75, 77, 82, 49>>

HEADER_SIZE == 32

\* the 32 header bytes buildContainer writes through the DataView
ContainerHeader(in) ==
  LET block == Max(2, Min(255, in.blockSize))
      discard == Max(0, Min(255, in.discardBits))
  IN  CONTAINER_MAGIC
        \o <<1, block, discard, IF in.smooth THEN 1 ELSE 0>>
        \o U32BE(in.width)
        \o U32BE(in.height)
        \o U32BE(Len(in.qoi))
        \o U32BE(Len(in.huffmanY))
        \o U32BE(Len(in.huffmanCb))
        \o U32BE(Len(in.huffmanCr))

\* a payload that leaves the last section out
ContainerPayloadWithoutCr(in) == in.qoi \o in.huffmanY \o in.huffmanCb

\* a payload that holds the Cb section before the Y section
ContainerPayloadCbFirst(in) == in.qoi \o in.huffmanCb \o in.huffmanY \o in.huffmanCr

\* the payload copied after the header: qoi, huffmanY, huffmanCb, huffmanCr
ContainerPayload(in) == in.qoi \o in.huffmanY \o in.huffmanCb \o in.huffmanCr

buildContainer(in) == ContainerHeader(in) \o ContainerPayload(in)

ParseError(msg) ==
  [ok |-> FALSE, error |-> msg, version |-> 0, width |-> 0, height |-> 0,
   blockSize |-> 0, discardBits |-> 0, smooth |-> FALSE, qoi |-> << >>,
   huffmanY |-> << >>, huffmanCb |-> << >>, huffmanCr |-> << >>, totalSize |-> 0]

\* the checks parseContainer makes on the magic, in the order it makes them;
\* a DataView read past the end of the buffer throws a RangeError
ParseMagicError(buffer) ==
  IF Len(buffer) < 4 THEN "RangeError: Offset is outside the bounds of the DataView"
  ELSE IF SubSeq(buffer, 1, 4) # CONTAINER_MAGIC THEN "Invalid container magic"
  ELSE ""

\* a version check that accepts every version byte
ParseAnyVersion(buffer) ==
  IF Len(buffer) < 5 THEN "RangeError: Offset is outside the bounds of the DataView"
  ELSE ""

\* the check parseContainer makes on the version byte (the source's message
\* goes on with the version number)
ParseVersionError(buffer) ==
  IF Len(buffer) < 5 THEN "RangeError: Offset is outside the bounds of the DataView"
  ELSE IF At(buffer, 4) # 1 THEN "Unsupported container version"
  ELSE ""

\* the four section lengths are read and used to slice the buffer; they are
\* not compared with the buffer's length
parseContainer(buffer) ==
  IF ParseMagicError(buffer) # "" THEN ParseError(ParseMagicError(buffer))
  ELSE IF ParseVersionError(buffer) # "" THEN ParseError(ParseVersionError(buffer))
  ELSE IF Len(buffer) < HEADER_SIZE
       THEN ParseError("RangeError: Offset is outside the bounds of the DataView")
  ELSE LET qoiLen == GetU32(buffer, 16)
           yLen == GetU32(buffer, 20)
           cbLen == GetU32(buffer, 24)
           crLen == GetU32(buffer, 28)
           o1 == HEADER_SIZE + qoiLen
           o2 == o1 + yLen
           o3 == o2 + cbLen
       IN  [ok |-> TRUE, error |-> "",
            version |-> At(buffer, 4),
            width |-> GetU32(buffer, 8),
            height |-> GetU32(buffer, 12),
            blockSize |-> At(buffer, 5),
            discardBits |-> At(buffer, 6),
            smooth |-> (At(buffer, 7) = 1),
            qoi |-> Slice(buffer, HEADER_SIZE, o1),
            huffmanY |-> Slice(buffer, o1, o2),
            huffmanCb |-> Slice(buffer, o2, o3),
            huffmanCr |-> Slice(buffer, o3, o3 + crLen),
            totalSize |-> Len(buffer)]

(***************************************************************************)
(* Decode pipeline (utils/decode.ts).                                      *)
(***************************************************************************)
\* Math.ceil(a / b) for a >= 0, b > 0
CeilDiv(a, b) == (a + b - 1) \div b

DecodeError(msg) ==
  [ok |-> FALSE, error |-> msg,
   imageData |-> [width |-> 0, height |-> 0, data |-> << >>],
   width |-> 0, height |-> 0, blockSize |-> 0, discardBits |-> 0, smooth |-> FALSE,
   qoiSize |-> 0, nodalSize |-> 0, totalSize |-> 0,
   nodalPointsY |-> << >>, nodalPointsCb |-> << >>, nodalPointsCr |-> << >>]

\* a check of the widths alone
QoiWidthMismatch(residualImage, width, height) == residualImage.width # width

\* a node count from rounding the quotients down
NodeCountFloor(width, height, block) ==
  (width \div Max(2, block)) * (height \div Max(2, block))

\* nodeCount: the expectedLength handed to decodeHuffman for each channel
NodeCount(width, height, block) ==
  CeilDiv(width, Max(2, block)) * CeilDiv(height, Max(2, block))

\* the check of the QOI payload's dimensions against the container header
QoiDimensionsMismatch(residualImage, width, height) ==
  residualImage.width # width \/ residualImage.height # height

decodeContainerToImage(buffer) ==
  LET parsed == parseContainer(buffer) IN
  IF ~parsed.ok THEN DecodeError(parsed.error)
  ELSE LET nodeCount == NodeCount(parsed.width, parsed.height, parsed.blockSize)
           nodalPointsY == decodeHuffman(parsed.huffmanY, nodeCount)
           nodalPointsCb == decodeHuffman(parsed.huffmanCb, nodeCount)
           nodalPointsCr == decodeHuffman(parsed.huffmanCr, nodeCount)
           residualImage == decodeQOI(parsed.qoi)
       IN  IF ~nodalPointsY.ok THEN DecodeError(nodalPointsY.error)
           ELSE IF ~nodalPointsCb.ok THEN DecodeError(nodalPointsCb.error)
           ELSE IF ~nodalPointsCr.ok THEN DecodeError(nodalPointsCr.error)
           ELSE IF ~residualImage.ok THEN DecodeError(residualImage.error)
           ELSE IF QoiDimensionsMismatch(residualImage, parsed.width, parsed.height)
                THEN DecodeError("QOI payload dimensions do not match container header")
           ELSE [ok |-> TRUE, error |-> "",
                 imageData |-> decodePaethResidual(
                                 [width |-> residualImage.width,
                                  height |-> residualImage.height,
                                  data |-> residualImage.data]),
                 width |-> parsed.width, height |-> parsed.height,
                 blockSize |-> parsed.blockSize, discardBits |-> parsed.discardBits,
                 smooth |-> parsed.smooth,
                 qoiSize |-> Len(parsed.qoi),
                 nodalSize |-> Len(parsed.huffmanY) + Len(parsed.huffmanCb)
                                 + Len(parsed.huffmanCr),
                 totalSize |-> parsed.totalSize,
                 nodalPointsY |-> nodalPointsY.out,
                 nodalPointsCb |-> nodalPointsCb.out,
                 nodalPointsCr |-> nodalPointsCr.out]

(***************************************************************************)
(* Nodal transform (utils/algorithm.ts).  The source computes in doubles;  *)
(* the model computes the same expressions exactly, as fractions N / D of  *)
(* integers, and rounds where the source rounds.  The two agree except     *)
(* where the exact value lies within the doubles' rounding error of a      *)
(* rounding boundary.                                                      *)
(***************************************************************************)
\* Math.round(N / D) for D > 0: the nearest integer, halves upwards
MathRound(N, D) == (2 * N + D) \div (2 * D)

\* the byte a Uint8ClampedArray stores for N / D, D > 0: clamped to
\* 0..255, nearest integer, halves to even
ToUint8Clamp(N, D) ==
  IF N <= 0 THEN 0
  ELSE IF N >= 255 * D THEN 255
  ELSE LET f == N \div D
           twice == 2 * (N - f * D)
       IN  IF twice > D THEN f + 1
           ELSE IF twice < D THEN f
           ELSE IF f % 2 = 0 THEN f ELSE f + 1

\* numerators of Y (over 1000), Cb and Cr (over 10000) of a pixel
YNum(c) == 299 * c[1] + 587 * c[2] + 114 * c[3]

CbNum(c) == -1687 * c[1] - 3313 * c[2] + 5000 * c[3] + 1280000

CrNum(c) == 5000 * c[1] - 4187 * c[2] - 813 * c[3] + 1280000

\* a quantize that rounds and keeps the low bits
quantizeRoundOnly(N, D, discard) == MathRound(N, D)

\* quantize(val) for val = N / D
quantize(N, D, discard) ==
  LET rounded == MathRound(N, D)
  IN  IF discard = 0 THEN rounded
      ELSE ((rounded \div 2 ^ discard) * 2 ^ discard) % 256

\* Math.min(255, Math.max(0, N / D)) as a numerator over D
Clamp255Num(N, D) == Min(255 * D, Max(0, N))

\* the 1-based positions in data of the pixels of tile (gx, gy)
TilePixels(width, height, block, gx, gy) ==
  LET xStart == gx * block
      yStart == gy * block
      xEnd == Min(width, xStart + block)
      yEnd == Min(height, yStart + block)
  IN  {y * width + x + 1 : x \in xStart..(xEnd - 1), y \in yStart..(yEnd - 1)}

\* the numerator of channel ch of pixel c and the scale it is over
ChannelNum(ch, c) ==
  IF ch = "Y" THEN YNum(c) ELSE IF ch = "Cb" THEN CbNum(c) ELSE CrNum(c)

ChannelScale(ch) == IF ch = "Y" THEN 1000 ELSE 10000

RECURSIVE SumOver(_, _, _)
SumOver(S, data, ch) ==
  IF S = {} THEN 0
  ELSE LET i == CHOOSE j \in S : TRUE
       IN  ChannelNum(ch, data[i]) + SumOver(S \ {i}, data, ch)

\* steps 1-3: the node of tile (gx, gy) for channel ch; the means of Cb
\* and Cr are clamped to [0, 255] before quantize, the mean of Y is not
NodalValue(img, block, discard, gx, gy, ch) ==
  LET tile == TilePixels(img.width, img.height, block, gx, gy)
      count == Cardinality(tile)
      sum == SumOver(tile, img.data, ch)
      D == ChannelScale(ch) * count
  IN  IF count = 0 THEN 0
      ELSE IF ch = "Y" THEN quantize(sum, D, discard)
      ELSE quantize(Clamp255Num(sum, D), D, discard)

\* the RGB pixel of the YCbCr triple (yN, cbN, crN) / D with Cb and Cr
\* already reduced by 128, alpha 255
YCbCrToPixel(yN, cbN, crN, D) ==
  << ToUint8Clamp(1000 * yN + 1402 * crN, 1000 * D),
     ToUint8Clamp(100000 * yN - 34414 * cbN - 71414 * crN, 100000 * D),
     ToUint8Clamp(1000 * yN + 1772 * cbN, 1000 * D),
     255 >>

\* step 4, smooth off: the pixel at (x, y) is its tile's node
FlatPixel(nY, nCb, nCr, gridWidth, block, x, y) ==
  LET idx == (y \div block) * gridWidth + (x \div block) + 1
  IN  YCbCrToPixel(nY[idx], nCb[idx] - 128, nCr[idx] - 128, 1)

\* lerp(lerp(n00, n10, tx), lerp(n01, n11, tx), ty) as a numerator over
\* txD * tyD, for tx = txN / txD and ty = tyN / tyD
Bilinear(n, idx00, idx10, idx01, idx11, txN, txD, tyN, tyD) ==
  LET top == n[idx00] * txD + (n[idx10] - n[idx00]) * txN
      bot == n[idx01] * txD + (n[idx11] - n[idx01]) * txN
  IN  top * tyD + (bot - top) * tyN

\* step 4, smooth on: bilinear interpolation between the four nodes
SmoothPixel(nY, nCb, nCr, width, height, gridWidth, gridHeight, block, x, y) ==
  LET gy == y \div block
      gy1 == Min(gy + 1, gridHeight - 1)
      y0 == gy * block
      y1 == Min(height - 1, (gy + 1) * block)
      tyN == IF y1 = y0 THEN 0 ELSE y - y0
      tyD == IF y1 = y0 THEN 1 ELSE y1 - y0
      gx == x \div block
      gx1 == Min(gx + 1, gridWidth - 1)
      x0 == gx * block
      x1 == Min(width - 1, (gx + 1) * block)
      txN == IF x1 = x0 THEN 0 ELSE x - x0
      txD == IF x1 = x0 THEN 1 ELSE x1 - x0
      idx00 == gy * gridWidth + gx + 1
      idx10 == gy * gridWidth + gx1 + 1
      idx01 == gy1 * gridWidth + gx + 1
      idx11 == gy1 * gridWidth + gx1 + 1
      D == txD * tyD
      yVal == Bilinear(nY, idx00, idx10, idx01, idx11, txN, txD, tyN, tyD)
      cbVal == Bilinear(nCb, idx00, idx10, idx01, idx11, txN, txD, tyN, tyD) - 128 * D
      crVal == Bilinear(nCr, idx00, idx10, idx01, idx11, txN, txD, tyN, tyD) - 128 * D
  IN  YCbCrToPixel(yVal, cbVal, crVal, D)

\* block: the block size the grid is built with
ProcessBlock(blockSize0) == Max(2, blockSize0)

processImageFrame(img, blockSize0, discardBits0, smooth0) ==
  LET width == img.width
      height == img.height
      block == ProcessBlock(blockSize0)
      discard == Min(6, Max(0, discardBits0))
      gridWidth == CeilDiv(width, block)
      gridHeight == CeilDiv(height, block)
      node(i, ch) ==
        NodalValue(img, block, discard, (i - 1) % gridWidth, (i - 1) \div gridWidth, ch)
      nodalY == [i \in 1..(gridWidth * gridHeight) |-> node(i, "Y")]
      nodalCb == [i \in 1..(gridWidth * gridHeight) |-> node(i, "Cb")]
      nodalCr == [i \in 1..(gridWidth * gridHeight) |-> node(i, "Cr")]
      outputData ==
        IF discard = 0 THEN img.data
        ELSE IF ~smooth0
        THEN [i \in 1..(width * height) |->
                FlatPixel(nodalY, nodalCb, nodalCr, gridWidth, block,
                          (i - 1) % width, (i - 1) \div width)]
        ELSE [i \in 1..(width * height) |->
                SmoothPixel(nodalY, nodalCb, nodalCr, width, height, gridWidth,
                            gridHeight, block, (i - 1) % width, (i - 1) \div width)]
  IN  [processedImageData |-> [width |-> width, height |-> height, data |-> outputData],
       nodalPointsY |-> nodalY,
       nodalPointsCb |-> nodalCb,
       nodalPointsCr |-> nodalCr]

(***************************************************************************)
(* Inputs.                                                                 *)
(***************************************************************************)
NoImage == [width |-> 0, height |-> 0, data |-> << >>]

NoProcessResult ==
  [processedImageData |-> NoImage, nodalPointsY |-> << >>,
   nodalPointsCb |-> << >>, nodalPointsCr |-> << >>]

NoInput ==
  [width |-> 0, height |-> 0, blockSize |-> 0, discardBits |-> 0, smooth |-> FALSE,
   qoi |-> << >>, huffmanY |-> << >>, huffmanCb |-> << >>, huffmanCr |-> << >>]

NoResult == [ok |-> FALSE, error |-> "none"]

Dims == {d \in (1..MaxPixels) \X (1..MaxPixels) : d[1] * d[2] <= MaxPixels}

FirstColors(colors, n) == {colors[i] : i \in 1..Min(n, Len(colors))}

Images(palette) ==
  UNION {{[width |-> d[1], height |-> d[2], data |-> px] :
            px \in [1..(d[1] * d[2]) -> palette]} : d \in Dims}

\* colours whose transitions make the QOI encoder use each of its ops:
\* RUN from the start pixel, DIFF, LUMA, RGBA, RGB, INDEX of the zeroed slot
QoiColors ==
  << <<0, 0, 0, 255>>, <<1, 1, 0, 255>>, <<10, 5, 3, 255>>, <<200, 100, 50, 128>>,
     <<100, 200, 30, 255>>, <<0, 0, 0, 0>>, <<255, 255, 255, 255>> >>

\* colours with distinct alphas and channel values on which the three
\* branches of the predictor differ
PaethColors ==
  << <<0, 255, 7, 255>>, <<1, 200, 50, 0>>, <<2, 100, 255, 128>>, <<255, 3, 9, 17>>,
     <<128, 64, 32, 1>>, <<77, 0, 254, 200>> >>

PipelineColors ==
  << <<0, 0, 0, 255>>, <<10, 200, 30, 128>>, <<255, 0, 0, 255>>, <<255, 255, 255, 255>>,
     <<64, 64, 64, 0>> >>

BlockSizes == {2, 4, 8, 16, 32}

DiscardBitsValues == {0, 1, 6}

NodalValues == {0, 42, 127, 200, 255}

NodalArrays == UNION {[1..n -> NodalValues] : n \in 1..MaxSeqLen}

\* the byte sequences a payload section of a ContainerInput is drawn from
Sections == UNION {[1..n -> {0, 255}] : n \in 0..MaxSectionLen}

ContainerInputs ==
  [width : {2, 16909060}, height : {1, 258}, blockSize : {1, 8, 300},
   discardBits : {-1, 7, 300}, smooth : BOOLEAN,
   qoi : Sections, huffmanY : Sections, huffmanCb : Sections, huffmanCr : Sections]

\* buffer with the byte at 0-based offset p replaced by v
SetByte(buffer, p, v) == [buffer EXCEPT ![p + 1] = v]

\* buffer with the big-endian u32 at 0-based offset p replaced by n
SetU32(buffer, p, n) ==
  [i \in 1..Len(buffer) |-> IF i \in (p + 1)..(p + 4) THEN U32BE(n)[i - p] ELSE buffer[i]]

\* the batch page as mounted: no files, no items, no run
MountedBatch ==
  [files |-> << >>, items |-> << >>, isRunning |-> FALSE, runs |-> << >>,
   selections |-> 0, starts |-> 0, resets |-> 0]

\* codec-log.csv does not exist and no request is being handled
NoLog == [exists |-> FALSE, lines |-> << >>, handlers |-> << >>]

\* neither codec loop has started
NoQoiRun == [phase |-> "none"]

\* the page as mounted: the initial values of its useState calls, the
\* dependencies of the first render, nothing pending
MountedPage ==
  [sourceKind |-> "none", isProcessing |-> FALSE, backendLocked |-> FALSE,
   rendered |-> [sourceKind |-> "none", originalImage |-> NoImage, blockSize |-> 8,
                 discardBits |-> 0, smooth |-> TRUE, backendLocked |-> FALSE],
   load |-> << >>, fetch |-> << >>, timers |-> << >>, awaiting |-> 0,
   failed |-> FALSE, selections |-> 0, changes |-> 0]

\* every variable a scenario does not use keeps this value
Unused(names) ==
  /\ "imageData" \in names \/ imageData = NoImage
  /\ "params" \in names \/ (blockSize = 0 /\ discardBits = 0 /\ smooth = FALSE)
  /\ "processed" \in names \/ processed = NoProcessResult
  /\ "residual" \in names \/ residual = NoImage
  /\ "qoiBytes" \in names \/ qoiBytes = << >>
  /\ "huffmanY" \in names \/ huffmanY = << >>
  /\ "huffman" \in names \/ (huffmanCb = << >> /\ huffmanCr = << >>)
  /\ "container" \in names \/ container = << >>
  /\ "nodal" \in names \/ (nodal = << >> /\ expectedLength = 0)
  /\ "input" \in names \/ input = NoInput
  /\ decoded = NoResult
  /\ tamper = "none"
  /\ page = MountedPage
  /\ "qoi" \in names \/ qoi = NoQoiRun
  /\ "batch" \in names \/ batch = MountedBatch
  /\ "log" \in names \/ log = NoLog

(***************************************************************************)
(* SpecQOI: an image through encodeQOI, then decodeQOI.                    *)
(***************************************************************************)
QoiInit ==
  /\ pc = "input"
  /\ imageData \in Images(FirstColors(QoiColors, QoiNumColors))
  /\ Unused({"imageData"})

QoiEncode ==
  /\ pc = "input"
  /\ qoiBytes' = encodeQOI(imageData)
  /\ pc' = "encoded"
  /\ UNCHANGED <<page, qoi, batch, log,
                 imageData, blockSize, discardBits, smooth, processed, residual,
                 huffmanY, huffmanCb, huffmanCr, container, decoded, nodal,
                 expectedLength, input, tamper>>

QoiDecode ==
  /\ pc = "encoded"
  /\ decoded' = decodeQOI(qoiBytes)
  /\ pc' = "decoded"
  /\ UNCHANGED <<page, qoi, batch, log,
                 imageData, blockSize, discardBits, smooth, processed, residual,
                 qoiBytes, huffmanY, huffmanCb, huffmanCr, container, nodal,
                 expectedLength, input, tamper>>

QoiNext == QoiEncode \/ QoiDecode

SpecQOI == QoiInit /\ [][QoiNext]_vars

(***************************************************************************)
(* SpecPaeth: an image through buildResidualImage, then                    *)
(* decodePaethResidual.                                                    *)
(***************************************************************************)
\* the 2x2 grey ramp from black to white
GreyRampImage ==
  [width |-> 2, height |-> 2,
   data |-> << <<0, 0, 0, 255>>, <<64, 64, 64, 255>>,
               <<128, 128, 128, 255>>, <<255, 255, 255, 255>> >>]

PaethInit ==
  /\ pc = "input"
  /\ imageData \in Images(FirstColors(PaethColors, PaethNumColors)) \cup {GreyRampImage}
  /\ Unused({"imageData"})

PaethForward ==
  /\ pc = "input"
  /\ residual' = buildResidualImage(imageData)
  /\ pc' = "residual"
  /\ UNCHANGED <<page, qoi, batch, log,
                 imageData, blockSize, discardBits, smooth, processed, qoiBytes,
                 huffmanY, huffmanCb, huffmanCr, container, decoded, nodal,
                 expectedLength, input, tamper>>

PaethInverse ==
  /\ pc = "residual"
  /\ decoded' = decodePaethResidual(residual)
  /\ pc' = "decoded"
  /\ UNCHANGED <<page, qoi, batch, log,
                 imageData, blockSize, discardBits, smooth, processed, residual,
                 qoiBytes, huffmanY, huffmanCb, huffmanCr, container, nodal,
                 expectedLength, input, tamper>>

PaethNext == PaethForward \/ PaethInverse

SpecPaeth == PaethInit /\ [][PaethNext]_vars

(***************************************************************************)
(* SpecHuffman: a number[] through encodeHuffman, the payload possibly cut *)
(* short or its bitstream overwritten, then decodeHuffman with the         *)
(* expectedLength of the original, or with another one.                    *)
(***************************************************************************)
\* the bytes of a payload's header: the count byte and its (symbol, len) pairs
HuffmanHeaderSize(data) == 1 + 2 * At(data, 0)

\* five equal values: one literal and one run after the delta stage
DegenerateArray == <<42, 42, 42, 42, 42>>

\* 257 values whose delta bytes take every byte value: 128 (delta 127
\* after the clamp, byte 255), 0 (delta -128, byte 0), then k, 0 for
\* k = 1..127 (deltas k and -k, bytes 128 + k and 128 - k), then 0 again
\* (delta 0, byte 128)
FullAlphabetArray ==
  <<128, 0>> \o [i \in 1..254 |-> IF i % 2 = 1 THEN (i + 1) \div 2 ELSE 0] \o <<0>>

HuffmanInit ==
  /\ pc = "input"
  /\ nodal \in NodalArrays \cup {DegenerateArray, FullAlphabetArray}
  /\ expectedLength = Len(nodal)
  /\ Unused({"nodal"})

HuffmanEncode ==
  /\ pc = "input"
  /\ huffmanY' = encodeHuffman(nodal)
  /\ pc' = "encoded"
  /\ UNCHANGED <<page, qoi, batch, log,
                 imageData, blockSize, discardBits, smooth, processed, residual,
                 qoiBytes, huffmanCb, huffmanCr, container, decoded, nodal,
                 expectedLength, input, tamper>>

\* the payload loses its tail: inside the header, or inside the bitstream
HuffmanTruncate ==
  /\ pc = "encoded"
  /\ \E n \in 1..(Len(huffmanY) - 1) :
       /\ huffmanY' = SubSeq(huffmanY, 1, n)
       /\ tamper' = IF n < HuffmanHeaderSize(huffmanY) THEN "header" ELSE "bitstream"
  /\ pc' = "tampered"
  /\ UNCHANGED <<page, qoi, batch, log,
                 imageData, blockSize, discardBits, smooth, processed, residual,
                 qoiBytes, huffmanCb, huffmanCr, container, decoded, nodal,
                 expectedLength, input>>

\* a table of one code (the single bit 0) followed by bits that are all 1:
\* no prefix of the bitstream lies in the range of a code
HuffmanUnmatchedBits ==
  /\ pc = "encoded"
  /\ At(huffmanY, 0) = 1
  /\ At(huffmanY, 2) = 1
  /\ huffmanY' = [i \in 1..Len(huffmanY) |->
                    IF i <= HuffmanHeaderSize(huffmanY) THEN huffmanY[i] ELSE 255]
  /\ tamper' = "unmatched"
  /\ pc' = "tampered"
  /\ UNCHANGED <<page, qoi, batch, log,
                 imageData, blockSize, discardBits, smooth, processed, residual,
                 qoiBytes, huffmanCb, huffmanCr, container, decoded, nodal,
                 expectedLength, input>>

\* the caller passes another expectedLength than the length of the array
\* that was encoded
HuffmanOtherLength ==
  /\ pc = "encoded"
  /\ \E n \in {1, Len(nodal) - 1, Len(nodal) + 1, Len(nodal) + 2} :
       /\ n >= 1 /\ n # Len(nodal)
       /\ expectedLength' = n
  /\ tamper' = "length"
  /\ pc' = "tampered"
  /\ UNCHANGED <<page, qoi, batch, log,
                 imageData, blockSize, discardBits, smooth, processed, residual,
                 qoiBytes, huffmanY, huffmanCb, huffmanCr, container, decoded, nodal,
                 input>>

HuffmanDecode ==
  /\ pc \in {"encoded", "tampered"}
  /\ decoded' = decodeHuffman(huffmanY, expectedLength)
  /\ pc' = "decoded"
  /\ UNCHANGED <<page, qoi, batch, log,
                 imageData, blockSize, discardBits, smooth, processed, residual,
                 qoiBytes, huffmanY, huffmanCb, huffmanCr, container, nodal,
                 expectedLength, input, tamper>>

HuffmanNext ==
  \/ HuffmanEncode \/ HuffmanTruncate \/ HuffmanUnmatchedBits \/ HuffmanOtherLength
  \/ HuffmanDecode

SpecHuffman == HuffmanInit /\ [][HuffmanNext]_vars

(***************************************************************************)
(* SpecContainer: a ContainerInput through buildContainer, the file        *)
(* possibly lengthened or shortened by a byte or with another smooth byte, *)
(* then parseContainer.                                                    *)
(***************************************************************************)
ContainerInit ==
  /\ pc = "input"
  /\ input \in ContainerInputs
  /\ Unused({"input"})

BuildContainer ==
  /\ pc = "input"
  /\ container' = buildContainer(input)
  /\ pc' = "built"
  /\ UNCHANGED <<page, qoi, batch, log,
                 imageData, blockSize, discardBits, smooth, processed, residual,
                 qoiBytes, huffmanY, huffmanCb, huffmanCr, decoded, nodal,
                 expectedLength, input, tamper>>

\* a byte is appended to the file
AppendByte ==
  /\ pc = "built"
  /\ container' = Append(container, 0)
  /\ tamper' = "appended"
  /\ pc' = "tampered"
  /\ UNCHANGED <<page, qoi, batch, log,
                 imageData, blockSize, discardBits, smooth, processed, residual,
                 qoiBytes, huffmanY, huffmanCb, huffmanCr, decoded, nodal,
                 expectedLength, input>>

\* the file loses its last byte, the header staying whole
DropLastByte ==
  /\ pc = "built"
  /\ Len(container) > HEADER_SIZE
  /\ container' = SubSeq(container, 1, Len(container) - 1)
  /\ tamper' = "shortened"
  /\ pc' = "tampered"
  /\ UNCHANGED <<page, qoi, batch, log,
                 imageData, blockSize, discardBits, smooth, processed, residual,
                 qoiBytes, huffmanY, huffmanCb, huffmanCr, decoded, nodal,
                 expectedLength, input>>

\* the file's smooth byte, header offset 7, holds another value
SetSmoothByte ==
  /\ pc = "built"
  /\ \E v \in {0, 1, 2, 255} :
       /\ At(container, 7) # v
       /\ container' = SetByte(container, 7, v)
  /\ tamper' = "smooth"
  /\ pc' = "tampered"
  /\ UNCHANGED <<page, qoi, batch, log,
                 imageData, blockSize, discardBits, smooth, processed, residual,
                 qoiBytes, huffmanY, huffmanCb, huffmanCr, decoded, nodal,
                 expectedLength, input>>

ParseContainer ==
  /\ pc \in {"built", "tampered"}
  /\ decoded' = parseContainer(container)
  /\ pc' = "parsed"
  /\ UNCHANGED <<page, qoi, batch, log,
                 imageData, blockSize, discardBits, smooth, processed, residual,
                 qoiBytes, huffmanY, huffmanCb, huffmanCr, container, nodal,
                 expectedLength, input, tamper>>

ContainerNext ==
  BuildContainer \/ AppendByte \/ DropLastByte \/ SetSmoothByte \/ ParseContainer

SpecContainer == ContainerInit /\ [][ContainerNext]_vars

(***************************************************************************)
(* Spec: the whole codec.  The encode request turns an image into a        *)
(* container; the file may be damaged on its way; selecting it decodes it. *)
(***************************************************************************)
Init ==
  /\ pc = "input"
  /\ imageData \in Images(FirstColors(PipelineColors, PipelineNumColors))
  /\ blockSize \in BlockSizes
  /\ discardBits \in DiscardBitsValues
  /\ smooth \in BOOLEAN
  /\ Unused({"imageData", "params"})

\* POST /api/compress: the custom codec's encode path, each local computed
\* from the ones before it
Encode ==
  /\ pc = "input"
  /\ processed' = processImageFrame(imageData, blockSize, discardBits, smooth)
  /\ residual' = buildResidualImage(processed'.processedImageData)
  /\ qoiBytes' = encodeQOI(residual')
  /\ huffmanY' = encodeHuffman(processed'.nodalPointsY)
  /\ huffmanCb' = encodeHuffman(processed'.nodalPointsCb)
  /\ huffmanCr' = encodeHuffman(processed'.nodalPointsCr)
  /\ container' = buildContainer(
       [width |-> imageData.width, height |-> imageData.height,
        blockSize |-> blockSize, discardBits |-> discardBits,
        smooth |-> smooth, qoi |-> qoiBytes',
        huffmanY |-> huffmanY', huffmanCb |-> huffmanCb', huffmanCr |-> huffmanCr'])
  /\ pc' = "encoded"
  /\ UNCHANGED <<page, qoi, batch, log,
                 imageData, blockSize, discardBits, smooth, decoded, nodal,
                 expectedLength, input, tamper>>

\* the first or the last magic byte is overwritten with 'X'
DamageMagic ==
  /\ pc = "encoded"
  /\ \E p \in {0, 3} : container' = SetByte(container, p, 88)
  /\ tamper' = "magic"
  /\ pc' = "tampered"
  /\ UNCHANGED <<page, qoi, batch, log,
                 imageData, blockSize, discardBits, smooth, processed, residual,
                 qoiBytes, huffmanY, huffmanCb, huffmanCr, decoded, nodal,
                 expectedLength, input>>

\* the version byte is overwritten
DamageVersion ==
  /\ pc = "encoded"
  /\ \E v \in {0, 2} : container' = SetByte(container, 4, v)
  /\ tamper' = "version"
  /\ pc' = "tampered"
  /\ UNCHANGED <<page, qoi, batch, log,
                 imageData, blockSize, discardBits, smooth, processed, residual,
                 qoiBytes, huffmanY, huffmanCb, huffmanCr, decoded, nodal,
                 expectedLength, input>>

\* the header's width or height is overwritten, the QOI payload kept
DamageDimensions ==
  /\ pc = "encoded"
  /\ \/ container' = SetU32(container, 8, imageData.width + 1)
     \/ container' = SetU32(container, 12, imageData.height + 1)
  /\ tamper' = "dimensions"
  /\ pc' = "tampered"
  /\ UNCHANGED <<page, qoi, batch, log,
                 imageData, blockSize, discardBits, smooth, processed, residual,
                 qoiBytes, huffmanY, huffmanCb, huffmanCr, decoded, nodal,
                 expectedLength, input>>

\* handleContainerSelect: the selected file through decodeContainerToImage
Decode ==
  /\ pc \in {"encoded", "tampered"}
  /\ decoded' = decodeContainerToImage(container)
  /\ pc' = "decoded"
  /\ UNCHANGED <<page, qoi, batch, log,
                 imageData, blockSize, discardBits, smooth, processed, residual,
                 qoiBytes, huffmanY, huffmanCb, huffmanCr, container, nodal,
                 expectedLength, input, tamper>>

Next == Encode \/ DamageMagic \/ DamageVersion \/ DamageDimensions \/ Decode

Spec == Init /\ [][Next]_vars

(***************************************************************************)
(* SpecNodal: the encode request, then the first byte of one of the three  *)
(* Huffman sections of the file overwritten, then the file decoded.        *)
(***************************************************************************)
\* the container the encode path built from the current locals
EncodedContainer ==
  buildContainer(
    [width |-> imageData.width, height |-> imageData.height,
     blockSize |-> blockSize, discardBits |-> discardBits, smooth |-> smooth,
     qoi |-> qoiBytes, huffmanY |-> huffmanY, huffmanCb |-> huffmanCb,
     huffmanCr |-> huffmanCr])

\* the 0-based offsets in the container of the three Huffman sections
NodalOffsets ==
  LET y == HEADER_SIZE + Len(qoiBytes)
  IN  {y, y + Len(huffmanY), y + Len(huffmanY) + Len(huffmanCb)}

\* the count byte of one Huffman section is overwritten; the header and
\* the QOI section stay as they are
DamageNodal ==
  /\ pc = "encoded"
  /\ \E off \in NodalOffsets : \E v \in {0, 255} :
       /\ At(container, off) # v
       /\ container' = SetByte(container, off, v)
  /\ tamper' = "nodal"
  /\ pc' = "tampered"
  /\ UNCHANGED <<page, qoi, batch, log,
                 imageData, blockSize, discardBits, smooth, processed, residual,
                 qoiBytes, huffmanY, huffmanCb, huffmanCr, decoded, nodal,
                 expectedLength, input>>

NodalNext == Encode \/ DamageNodal \/ Decode

SpecNodal == Init /\ [][NodalNext]_vars

(***************************************************************************)
(* SpecGrid: the encode request and the decode of its container for images *)
(* of one colour whose sides some block sizes divide and some do not, and  *)
(* block sizes inside and outside 2..255.                                  *)
(***************************************************************************)
GridDims == {<<1, 1>>, <<3, 2>>, <<2, 2>>, <<1, 4>>}

GridBlockSizes == {-3, 0, 1, 2, 3, 255, 256, 300}

\* colours at the ends of the ranges of Y, Cb and Cr: black, white, blue
\* (Cb mean 255.5), red (Cr mean 255.5), yellow (Cb mean 0.5), cyan (Cr 0.5)
GridColors ==
  {<<0, 0, 0, 255>>, <<10, 200, 30, 128>>, <<255, 255, 255, 255>>,
   <<0, 0, 255, 255>>, <<255, 0, 0, 255>>, <<255, 255, 0, 255>>, <<0, 255, 255, 255>>}

\* a 3 x 2 image whose tiles mix the colours
MixedImage ==
  [width |-> 3, height |-> 2,
   data |-> << <<255, 255, 255, 255>>, <<0, 0, 255, 255>>, <<255, 0, 0, 255>>,
               <<10, 200, 30, 128>>, <<255, 255, 0, 255>>, <<0, 0, 0, 255>> >>]

GridImages ==
  {[width |-> d[1], height |-> d[2], data |-> [i \in 1..(d[1] * d[2]) |-> c]] :
     d \in GridDims, c \in GridColors} \cup {MixedImage}

GridInit ==
  /\ pc = "input"
  /\ imageData \in GridImages
  /\ blockSize \in GridBlockSizes
  /\ discardBits \in {-1, 0, 3, 7}
  /\ smooth \in BOOLEAN
  /\ Unused({"imageData", "params"})

GridNext == Encode \/ Decode

SpecGrid == GridInit /\ [][GridNext]_vars

(***************************************************************************)
(* SpecFallback: the single-image page (app/page.tsx).  Here imageData is  *)
(* the state originalImage, container the state containerBytes (<< >> for  *)
(* null) and blockSize, discardBits, smooth the states of those names.     *)
(* page holds the other state the fallback depends on:                     *)
(*   sourceKind, isProcessing, backendLocked   the useState values         *)
(*   rendered   the dependencies of the last committed render, which are   *)
(*              also what the closures of that render see                  *)
(*   load       the file being read by handleImageSelect, with the closure *)
(*              of the handler                                             *)
(*   fetch      the POST in flight, with the same closure                  *)
(*   timers     the closures of the setTimeout callbacks, in the order     *)
(*              they were set (all with the same delay)                    *)
(*   awaiting   the timer callbacks suspended at await Promise.all         *)
(*   failed     the POST for the selected image has failed                 *)
(* State updates of one callback are applied together; a render commits    *)
(* them and runs the effect when its dependencies changed.  The canvas     *)
(* and its 2d context exist, and the images are opaque, so getImageData    *)
(* returns the pixels of the file.                                         *)
(***************************************************************************)
codecVars ==
  <<pc, processed, residual, qoiBytes, huffmanY, huffmanCb, huffmanCr, decoded,
    nodal, expectedLength, input, tamper, qoi, batch, log>>

\* the variables of the codec scenarios
codecVarsOnly ==
  <<processed, residual, qoiBytes, huffmanY, huffmanCb, huffmanCr, container,
    decoded, nodal, expectedLength, input, tamper>>

PageImages ==
  {[width |-> 1, height |-> 1, data |-> <<c>>] :
     c \in {<<0, 0, 0, 255>>, <<255, 0, 0, 255>>, <<255, 255, 255, 255>>}}

\* the dependency array of the effect, from the current state
PageDeps ==
  [sourceKind |-> page.sourceKind, originalImage |-> imageData,
   blockSize |-> blockSize, discardBits |-> discardBits, smooth |-> smooth,
   backendLocked |-> page.backendLocked]

\* the values of the block size slider the user moves between
PageBlockSizes == {4, 8}

\* the container the pipeline builds in the timer callback of
\* runCompressionSimulation, for every image and every parameters a closure
\* of the page can hold: the pairs <<closure, container>>
ClientContainers ==
  {<<c, LET result == processImageFrame(c.originalImage, c.blockSize,
                                        c.discardBits, c.smooth)
        IN  buildContainer(
              [width |-> c.originalImage.width, height |-> c.originalImage.height,
               blockSize |-> c.blockSize, discardBits |-> c.discardBits,
               smooth |-> c.smooth,
               qoi |-> encodeQOI(buildResidualImage(result.processedImageData)),
               huffmanY |-> encodeHuffman(result.nodalPointsY),
               huffmanCb |-> encodeHuffman(result.nodalPointsCb),
               huffmanCr |-> encodeHuffman(result.nodalPointsCr)])>> :
     c \in [originalImage : PageImages, blockSize : PageBlockSizes,
            discardBits : {0}, smooth : {TRUE}]}

\* the container of the closure c (the dependencies of a render)
ClientContainer(c) ==
  LET pair == CHOOSE p \in ClientContainers :
                p[1] = [originalImage |-> c.originalImage, blockSize |-> c.blockSize,
                        discardBits |-> c.discardBits, smooth |-> c.smooth]
  IN  pair[2]

\* an effect that runs the simulation while the backend holds the lock
EffectConditionLocked(deps) ==
  deps.sourceKind = "image" /\ deps.originalImage # NoImage /\ deps.backendLocked

\* the condition under which the effect calls runCompressionSimulation
EffectCondition(deps) ==
  deps.sourceKind = "image" /\ deps.originalImage # NoImage /\ ~deps.backendLocked

\* the user selects a file: handleImageSelect of the committed render starts
\* reading it
HandleImageSelect ==
  /\ pc = "page"
  /\ page.load = << >> /\ page.fetch = << >>
  /\ page.selections < MaxSelections
  /\ \E file \in PageImages \ {imageData} :
       page' = [page EXCEPT !.load = <<[file |-> file, closure |-> page.rendered]>>,
                            !.selections = @ + 1]
  /\ UNCHANGED <<imageData, blockSize, discardBits, smooth, container>>
  /\ UNCHANGED codecVars

\* img.onload: the state is reset for the new image and runBackend runs up
\* to its await fetch
ImgOnload ==
  /\ pc = "page"
  /\ page.load # << >>
  /\ imageData' = page.load[1].file
  /\ container' = << >>
  /\ page' = [page EXCEPT !.sourceKind = "image", !.backendLocked = TRUE,
                          !.isProcessing = TRUE, !.fetch = page.load,
                          !.load = << >>, !.failed = FALSE]
  /\ UNCHANGED <<blockSize, discardBits, smooth>>
  /\ UNCHANGED codecVars

\* the POST succeeds: the server's container for the file and the
\* parameters of the form, then finally
FetchOk ==
  /\ pc = "page"
  /\ page.fetch # << >>
  /\ container' = ClientContainer([page.fetch[1].closure EXCEPT
                                     !.originalImage = page.fetch[1].file])
  /\ page' = [page EXCEPT !.isProcessing = FALSE, !.fetch = << >>]
  /\ UNCHANGED <<imageData, blockSize, discardBits, smooth>>
  /\ UNCHANGED codecVars

\* the POST fails: catch unlocks and calls the handler's
\* runCompressionSimulation, which sees the originalImage of the handler's
\* render (it returns at once when that is null); then finally
FetchFail ==
  /\ pc = "page"
  /\ page.fetch # << >>
  /\ LET c == page.fetch[1].closure
         simulates == c.originalImage # NoImage
     IN  /\ container' = IF simulates THEN << >> ELSE container
         /\ page' = [page EXCEPT !.backendLocked = FALSE,
                                 !.timers = IF simulates THEN Append(@, c) ELSE @,
                                 !.isProcessing = FALSE,
                                 !.fetch = << >>, !.failed = TRUE]
  /\ UNCHANGED <<imageData, blockSize, discardBits, smooth>>
  /\ UNCHANGED codecVars

\* a render with changed dependencies commits; its effect calls
\* runCompressionSimulation of that render when EffectCondition holds
Render ==
  /\ pc = "page"
  /\ page.rendered # PageDeps
  /\ LET simulates == EffectCondition(PageDeps)
     IN  /\ container' = IF simulates THEN << >> ELSE container
         /\ page' = [page EXCEPT !.rendered = PageDeps,
                                 !.isProcessing = IF simulates THEN TRUE ELSE @,
                                 !.timers = IF simulates THEN Append(@, PageDeps) ELSE @]
  /\ UNCHANGED <<imageData, blockSize, discardBits, smooth>>
  /\ UNCHANGED codecVars

\* the oldest timer fires: the pipeline runs on its closure up to
\* await Promise.all
TimerFires ==
  /\ pc = "page"
  /\ page.timers # << >>
  /\ container' = ClientContainer(Head(page.timers))
  /\ page' = [page EXCEPT !.timers = Tail(@), !.awaiting = @ + 1]
  /\ UNCHANGED <<imageData, blockSize, discardBits, smooth>>
  /\ UNCHANGED codecVars

\* the decode times are measured: a timer callback runs to its end
DecodeMeasured ==
  /\ pc = "page"
  /\ page.awaiting > 0
  /\ page' = [page EXCEPT !.awaiting = @ - 1, !.isProcessing = FALSE]
  /\ UNCHANGED <<imageData, blockSize, discardBits, smooth, container>>
  /\ UNCHANGED codecVars

\* the user moves the block size slider
SetBlockSize ==
  /\ pc = "page"
  /\ page.changes < MaxParamChanges
  /\ \E b \in PageBlockSizes \ {blockSize} : blockSize' = b
  /\ page' = [page EXCEPT !.changes = @ + 1]
  /\ UNCHANGED <<imageData, discardBits, smooth, container>>
  /\ UNCHANGED codecVars

FallbackInit ==
  /\ pc = "page"
  /\ blockSize = 8 /\ discardBits = 0 /\ smooth = TRUE
  /\ Unused({"params"})

FallbackNext ==
  \/ HandleImageSelect \/ ImgOnload \/ FetchOk \/ FetchFail \/ Render
  \/ TimerFires \/ DecodeMeasured \/ SetBlockSize

\* the browser delivers what is pending: the image load, the outcome of
\* the POST, renders, timers and promise continuations; the user's actions
\* are not forced
SpecFallback ==
  /\ FallbackInit
  /\ [][FallbackNext]_vars
  /\ WF_vars(ImgOnload)
  /\ WF_vars(FetchOk \/ FetchFail)
  /\ WF_vars(Render)
  /\ WF_vars(TimerFires)
  /\ WF_vars(DecodeMeasured)

(***************************************************************************)
(* SpecQoiSteps: encodeQOI one pixel of its loop at a time, then decodeQOI *)
(* one iteration of its loop at a time on the stream that was written.     *)
(* qoi.enc holds the encoder's locals (px, run, index, and bytes for       *)
(* bytes[0..p-1]), qoi.k the pixels it has processed, qoi.dec the          *)
(* decoder's locals.                                                       *)
(***************************************************************************)
\* 65 pixels equal to the start pixel (a run of 62 and a pending run of 3),
\* the zero pixel, another colour, the start pixel again, the zero pixel again
LongRunImage ==
  [width |-> 69, height |-> 1,
   data |-> [i \in 1..65 |-> <<0, 0, 0, 255>>]
              \o << <<0, 0, 0, 0>>, <<1, 1, 0, 255>>, <<0, 0, 0, 255>>, <<0, 0, 0, 0>> >>]

\* one pixel, then exactly 62 equal pixels of another colour up to the end
FullRunImage ==
  [width |-> 9, height |-> 7,
   data |-> << <<10, 5, 3, 255>> >> \o [i \in 1..62 |-> <<200, 100, 50, 128>>]]

\* (2,1,0,255) hashes to slot 0, the slot of the zero pixel
CollisionImage ==
  [width |-> 2, height |-> 3,
   data |-> << <<2, 1, 0, 255>>, <<0, 0, 0, 0>>, <<2, 1, 0, 255>>,
               <<0, 0, 0, 0>>, <<0, 0, 0, 0>>, <<2, 1, 0, 255>> >>]

QoiStepImages ==
  Images(FirstColors(QoiColors, QoiNumColors))
    \cup {LongRunImage, FullRunImage, CollisionImage}

QoiTotalPixels == imageData.width * imageData.height

QoiStepsInit ==
  /\ pc = "input"
  /\ imageData \in QoiStepImages
  /\ qoi = [phase |-> "encode", k |-> 0, enc |-> QoiEncoderStart(imageData),
            dec |-> QoiDecoderStart]
  /\ Unused({"imageData", "qoi"})

\* one iteration of the encoder's for loop
QoiEncodePixel ==
  /\ pc = "input"
  /\ qoi.phase = "encode"
  /\ qoi.k < QoiTotalPixels
  /\ qoi' = [qoi EXCEPT !.k = @ + 1,
                        !.enc = QoiEncodeStep(@, imageData.data[qoi.k + 1])]
  /\ UNCHANGED <<pc, imageData, qoiBytes, decoded>>
  /\ UNCHANGED <<page, batch, log, blockSize, discardBits, smooth, processed, residual, huffmanY,
                 huffmanCb, huffmanCr, container, nodal, expectedLength, input, tamper>>

\* the loop has ended: the pending run and the end marker are written and
\* the filled part of the buffer is returned
QoiEncodeReturn ==
  /\ pc = "input"
  /\ qoi.phase = "encode"
  /\ qoi.k = QoiTotalPixels
  /\ qoiBytes' = QoiEncoderFinish(qoi.enc)
  /\ qoi' = [qoi EXCEPT !.phase = "decode"]
  /\ pc' = "encoded"
  /\ UNCHANGED <<imageData, decoded>>
  /\ UNCHANGED <<page, batch, log, blockSize, discardBits, smooth, processed, residual, huffmanY,
                 huffmanCb, huffmanCr, container, nodal, expectedLength, input, tamper>>

\* one iteration of the decoder's while loop
QoiDecodeIteration ==
  /\ pc = "encoded"
  /\ qoi.phase = "decode"
  /\ QoiDecodeContinues(qoiBytes, GetU32(qoiBytes, 4) * GetU32(qoiBytes, 8), qoi.dec)
  /\ qoi' = [qoi EXCEPT !.dec = QoiDecodeStep(qoiBytes, @)]
  /\ UNCHANGED <<pc, imageData, qoiBytes, decoded>>
  /\ UNCHANGED <<page, batch, log, blockSize, discardBits, smooth, processed, residual, huffmanY,
                 huffmanCb, huffmanCr, container, nodal, expectedLength, input, tamper>>

\* the decoder's loop has ended: the ImageData is returned
QoiDecodeReturn ==
  /\ pc = "encoded"
  /\ qoi.phase = "decode"
  /\ LET total == GetU32(qoiBytes, 4) * GetU32(qoiBytes, 8)
     IN  /\ ~QoiDecodeContinues(qoiBytes, total, qoi.dec)
         /\ decoded' = [ok |-> TRUE, error |-> "",
                        width |-> GetU32(qoiBytes, 4), height |-> GetU32(qoiBytes, 8),
                        data |-> qoi.dec.pixels
                                   \o [i \in 1..(total - qoi.dec.pxPos) |-> <<0, 0, 0, 0>>]]
  /\ qoi' = [qoi EXCEPT !.phase = "done"]
  /\ pc' = "decoded"
  /\ UNCHANGED <<imageData, qoiBytes>>
  /\ UNCHANGED <<page, batch, log, blockSize, discardBits, smooth, processed, residual, huffmanY,
                 huffmanCb, huffmanCr, container, nodal, expectedLength, input, tamper>>

QoiStepsNext ==
  QoiEncodePixel \/ QoiEncodeReturn \/ QoiDecodeIteration \/ QoiDecodeReturn

SpecQoiSteps == QoiStepsInit /\ [][QoiStepsNext]_vars

(***************************************************************************)
(* SpecBatch: the batch page (app/batch/page.tsx) and the log route        *)
(* (app/api/log-csv/route.ts).  batch.runs holds the processQueue calls    *)
(* that wait for a response of /api/compress, each with the files of its   *)
(* closure, its local array updated and its loop index i (from 1).         *)
(* log.handlers holds the POST handlers of /api/log-csv with the await     *)
(* each has reached; a line of the file is 0 for the header and k for the  *)
(* row of the k-th request.  Click handlers run on the committed state.    *)
(***************************************************************************)
\* the file lists the user picks
BatchPicks == {<<"a", "b">>, <<"c">>}

CSV_HEADER == 0

\* what the batch page and the log route never touch
BatchFrame ==
  /\ UNCHANGED <<pc, imageData, blockSize, discardBits, smooth, page, qoi>>
  /\ UNCHANGED codecVarsOnly

\* updated[i] = { ...updated[i], status }, i from 1; past the end of the
\* array the spread of undefined leaves an item without a name
SetStatus(updated, i, status) ==
  IF i <= Len(updated) THEN [updated EXCEPT ![i].status = status]
  ELSE Append(updated, [name |-> "", status |-> status])

\* handleSelect: the picked files and one pending item for each
HandleSelect ==
  /\ pc = "batch"
  /\ BatchFrame
  /\ batch.selections < MaxBatchSelections
  /\ \E picked \in BatchPicks :
       batch' = [batch EXCEPT
                   !.files = picked,
                   !.items = [k \in 1..Len(picked) |->
                                [name |-> picked[k], status |-> "pending"]],
                   !.selections = @ + 1]
  /\ UNCHANGED log

\* Start batch, enabled while files are selected and isRunning is false:
\* processQueue up to its first await fetch
StartBatch ==
  /\ pc = "batch"
  /\ BatchFrame
  /\ batch.starts < MaxBatchStarts
  /\ batch.files # << >> /\ ~batch.isRunning
  /\ LET updated == SetStatus(batch.items, 1, "processing")
     IN  batch' = [batch EXCEPT
                     !.isRunning = TRUE,
                     !.items = updated,
                     !.runs = Append(@, [files |-> batch.files, updated |-> updated,
                                         i |-> 1]),
                     !.starts = @ + 1]
  /\ UNCHANGED log

\* the response of /api/compress reaches the run that waits for it: the
\* item is done (and its row is posted to /api/log-csv) or in error, then
\* the loop goes on to the next file of the run's closure or ends
CompressResponds ==
  /\ pc = "batch"
  /\ BatchFrame
  /\ \E r \in 1..Len(batch.runs), ok \in BOOLEAN :
       LET run == batch.runs[r]
           finished == SetStatus(run.updated, run.i, IF ok THEN "done" ELSE "error")
           started == SetStatus(finished, run.i + 1, "processing")
       IN  /\ ok => Len(log.handlers) < MaxLogRequests
           /\ log' = IF ok THEN [log EXCEPT !.handlers = Append(@, "access")] ELSE log
           /\ batch' =
                IF run.i < Len(run.files)
                THEN [batch EXCEPT
                        !.items = started,
                        !.runs[r] = [run EXCEPT !.updated = started, !.i = @ + 1]]
                ELSE [batch EXCEPT
                        !.items = finished,
                        !.isRunning = FALSE,
                        !.runs = [k \in 1..(Len(@) - 1) |->
                                    IF k < r THEN @[k] ELSE @[k + 1]]]

\* Reset: files and items are emptied and isRunning is cleared
ResetBatch ==
  /\ pc = "batch"
  /\ BatchFrame
  /\ batch.resets < MaxBatchResets
  /\ batch' = [batch EXCEPT !.files = << >>, !.items = << >>, !.isRunning = FALSE,
                            !.resets = @ + 1]
  /\ UNCHANGED log

\* ensureHeader, fs.access: the file exists, or the catch will write it
LogAccess ==
  /\ pc = "batch"
  /\ BatchFrame
  /\ \E h \in 1..Len(log.handlers) :
       /\ log.handlers[h] = "access"
       /\ log' = [log EXCEPT !.handlers[h] = IF log.exists THEN "append" ELSE "write"]
  /\ UNCHANGED batch

\* ensureHeader, fs.writeFile: the file is replaced by the header line
LogWriteHeader ==
  /\ pc = "batch"
  /\ BatchFrame
  /\ \E h \in 1..Len(log.handlers) :
       /\ log.handlers[h] = "write"
       /\ log' = [log EXCEPT !.exists = TRUE, !.lines = <<CSV_HEADER>>,
                             !.handlers[h] = "append"]
  /\ UNCHANGED batch

\* fs.appendFile of the row, then the response { ok: true }
LogAppendRow ==
  /\ pc = "batch"
  /\ BatchFrame
  /\ \E h \in 1..Len(log.handlers) :
       /\ log.handlers[h] = "append"
       /\ log' = [log EXCEPT !.exists = TRUE, !.lines = Append(@, h),
                             !.handlers[h] = "ok"]
  /\ UNCHANGED batch

BatchInit ==
  /\ pc = "batch"
  /\ Unused({})

BatchNext ==
  \/ HandleSelect \/ StartBatch \/ CompressResponds \/ ResetBatch
  \/ LogAccess \/ LogWriteHeader \/ LogAppendRow

SpecBatch == BatchInit /\ [][BatchNext]_vars

(***************************************************************************)
(* Properties.                                                             *)
(***************************************************************************)
\* C1: lossless round trip.  With discardBits = 0, for every blockSize of
\* {2, 4, 8, 16, 32} and either value of smooth, decoding the container the
\* encode pipeline built returns the original image, byte for byte, the
\* alpha of every pixel included.
C1_LosslessRoundTrip ==
  (pc = "decoded" /\ tamper = "none" /\ discardBits = 0)
    => (decoded.ok /\ decoded.imageData = imageData)

\* C2: QOI round trip.  decodeQOI(encodeQOI(I)) has the width, the height
\* and the pixel bytes of I, whatever op the stream ends with.
C2_QoiRoundTrip ==
  pc = "decoded"
    => /\ decoded.ok
       /\ decoded.width = imageData.width
       /\ decoded.height = imageData.height
       /\ decoded.data = imageData.data

\* C3: Huffman round trip.  For every non-empty sequence seq of bytes,
\* decodeHuffman(encodeHuffman(seq), seq.length) equals seq.
C3_HuffmanRoundTrip ==
  (pc = "decoded" /\ tamper = "none") => (decoded.ok /\ decoded.out = nodal)

\* C4: preview idempotence.  With discardBits in 1..6, decoding the encoded
\* container returns the preview (processedImageData) the encoder fed to the
\* Paeth predictor, byte for byte, alpha = 255 included.
C4_PreviewIdempotent ==
  (pc = "decoded" /\ tamper = "none" /\ discardBits \in 1..6)
    => (decoded.ok /\ decoded.imageData = processed.processedImageData)

\* C5: Paeth invertibility.  decodePaethResidual(buildResidualImage(I)) = I
\* for every image I; residual bytes are reduced modulo 256 and alpha is
\* copied unchanged in both directions.
C5_PaethInvertible ==
  /\ pc \in {"residual", "decoded"}
       => /\ residual.width = imageData.width
          /\ residual.height = imageData.height
          /\ Len(residual.data) = Len(imageData.data)
          /\ \A k \in 1..Len(residual.data) :
               /\ residual.data[k][4] = imageData.data[k][4]
               /\ \A c \in 1..3 : residual.data[k][c] \in 0..255
  /\ pc = "decoded" => decoded = imageData

\* a 2 x 2 image with a transparent pixel has been through both passes, and
\* one of its residual bytes wrapped around modulo 256
C5_Witness ==
  /\ pc = "decoded"
  /\ imageData.width = 2
  /\ imageData.height = 2
  /\ \E k \in 1..4 : imageData.data[k][4] = 0
  /\ \E k \in 1..4 : \E c \in 1..3 : residual.data[k][c] > imageData.data[k][c]
  /\ decoded = imageData

\* the sum of the section lengths the header of a buffer declares
DeclaredSize(buffer) ==
  HEADER_SIZE + GetU32(buffer, 16) + GetU32(buffer, 20) + GetU32(buffer, 24)
    + GetU32(buffer, 28)

\* C6: parseContainer raises an error for every buffer whose length is not
\* 32 plus the four section lengths its header declares, be the buffer cut
\* short or followed by trailing bytes.
C6_ParseChecksLength ==
  (pc = "parsed" /\ DeclaredSize(container) # Len(container)) => ~decoded.ok

\* C7: a buffer whose first four bytes are not 'KMR1', or whose version byte
\* is not 1, is rejected: parseContainer throws at that check, before any
\* other field is read, and no image is returned.
C7_RejectsMagicAndVersion ==
  pc = "decoded"
    => /\ SubSeq(container, 1, 4) # CONTAINER_MAGIC
            => /\ ~decoded.ok
               /\ decoded.error = "Invalid container magic"
               /\ decoded.imageData = NoImage
       /\ (SubSeq(container, 1, 4) = CONTAINER_MAGIC /\ At(container, 4) # 1)
            => /\ ~decoded.ok
               /\ decoded.error = "Unsupported container version"
               /\ decoded.imageData = NoImage

\* a container whose byte 0 was changed from 'K' to 'X' has been rejected
C7_Witness ==
  /\ pc = "decoded"
  /\ tamper = "magic"
  /\ container[1] = 88
  /\ SubSeq(container, 2, 4) = SubSeq(CONTAINER_MAGIC, 2, 4)
  /\ ~decoded.ok
  /\ decoded.error = "Invalid container magic"

\* a container whose version byte was changed to 2 has been rejected
C7_WitnessVersion ==
  /\ pc = "decoded"
  /\ tamper = "version"
  /\ At(container, 4) = 2
  /\ ~decoded.ok
  /\ decoded.error = "Unsupported container version"

\* C8: when the width or height in the QOI payload's header differs from
\* the width or height in the container header, decodeContainerToImage
\* throws and returns no image.
C8_DimensionMismatchThrows ==
  (/\ pc = "decoded"
   /\ SubSeq(container, 1, 4) = CONTAINER_MAGIC
   /\ At(container, 4) = 1
   /\ \/ GetU32(qoiBytes, 4) # GetU32(container, 8)
      \/ GetU32(qoiBytes, 8) # GetU32(container, 12))
    => /\ ~decoded.ok
       /\ decoded.error = "QOI payload dimensions do not match container header"
       /\ decoded.imageData = NoImage

\* a container of a 2 x 2 image whose header says 2 x 3 has been rejected
C8_Witness ==
  /\ pc = "decoded"
  /\ tamper = "dimensions"
  /\ GetU32(qoiBytes, 4) = 2
  /\ GetU32(qoiBytes, 8) = 2
  /\ GetU32(container, 8) = 2
  /\ GetU32(container, 12) = 3
  /\ ~decoded.ok

\* C9: the array buildContainer returns is 32 bytes longer than its four
\* sections together, and the fields at offsets 16, 20, 24 and 28 hold the
\* lengths of qoi, huffmanY, huffmanCb and huffmanCr.
C9_ContainerLength ==
  pc = "built"
    => /\ Len(container) = 32 + Len(input.qoi) + Len(input.huffmanY)
                             + Len(input.huffmanCb) + Len(input.huffmanCr)
       /\ GetU32(container, 16) = Len(input.qoi)
       /\ GetU32(container, 20) = Len(input.huffmanY)
       /\ GetU32(container, 24) = Len(input.huffmanCb)
       /\ GetU32(container, 28) = Len(input.huffmanCr)

\* a container has been built from sections of different lengths
C9_Witness ==
  /\ pc = "built"
  /\ Len(input.qoi) = 1
  /\ Len(input.huffmanY) = 0
  /\ Len(input.huffmanCb) = 0
  /\ Len(input.huffmanCr) = 1
  /\ Len(container) = 34

\* C10: decodeHuffman reports a format error, and returns no output array,
\* when the header is cut short, when the bitstream runs out before
\* expectedLength values were produced, or when the bits match no code.
C10_HuffmanFormatError ==
  (pc = "decoded" /\ tamper \in {"header", "bitstream", "unmatched"}) => ~decoded.ok

\* C11: non-interference of the nodal streams.  Two containers with the
\* same header dimensions and the same QOI section that differ only in the
\* bytes of their Huffman sections decode to the same pixels: the Huffman
\* bytes neither change the rgba buffer nor make the decode fail.
C11_NodalNonInterference ==
  (pc = "decoded" /\ tamper = "nodal")
    => LET reference == decodeContainerToImage(EncodedContainer)
       IN  /\ decoded.ok = reference.ok
           /\ decoded.imageData = reference.imageData

\* C12: for every blockSize, the block size processImageFrame builds the
\* grid with is clamp(blockSize, 2, 255), the value buildContainer stores
\* at header offset 5, and the node count decodeContainerToImage derives
\* from the header is the length of the nodal arrays that were encoded
C12_BlockClampConsistent ==
  pc # "input"
    => LET parsed == parseContainer(container)
       IN  /\ ProcessBlock(blockSize) = Max(2, Min(255, blockSize))
           /\ At(container, 5) = Max(2, Min(255, blockSize))
           /\ NodeCount(parsed.width, parsed.height, parsed.blockSize)
                = Len(processed.nodalPointsY)

\* C13: for blockSize b in 2..255 each nodal array of processImageFrame has
\* ceil(W / b) * ceil(H / b) entries, and that number is the expectedLength
\* decodeContainerToImage passes to decodeHuffman
C13_GridSize ==
  (pc # "input" /\ blockSize \in 2..255)
    => LET W == imageData.width
           H == imageData.height
           b == blockSize
           cells == ((W + b - 1) \div b) * ((H + b - 1) \div b)
           parsed == parseContainer(container)
       IN  /\ Len(processed.nodalPointsY) = cells
           /\ Len(processed.nodalPointsCb) = cells
           /\ Len(processed.nodalPointsCr) = cells
           /\ NodeCount(parsed.width, parsed.height, parsed.blockSize) = cells

\* C13 witness: a 3x2 image decoded with block size 2, a grid of 2 by 1
C13_Witness ==
  /\ pc = "decoded"
  /\ imageData.width = 3 /\ imageData.height = 2
  /\ blockSize = 2
  /\ Len(processed.nodalPointsY) = 2
  /\ Len(decoded.nodalPointsCr) = 2

\* C14: parseContainer returns smooth = true for every non-zero value of
\* header byte 7 and smooth = false only for 0
C14_SmoothNonZero ==
  (pc = "parsed" /\ decoded.ok) => decoded.smooth = (At(container, 7) # 0)

\* C15: scenario S1, the 2x2 image of four pixels (255,0,0,255) encoded with
\* blockSize 2, discardBits 0, smooth true: the QOI section is the 14-byte
\* header, QOI_OP_RGB 255 0 0, the run op 0xC2, seven 0x00 and 0x01, and
\* decoding the container returns the input pixels
C15_ScenarioS1 ==
  ( /\ pc = "decoded" /\ tamper = "none"
    /\ imageData = [width |-> 2, height |-> 2,
                    data |-> [i \in 1..4 |-> <<255, 0, 0, 255>>]]
    /\ blockSize = 2 /\ discardBits = 0 /\ smooth )
    => /\ qoiBytes = <<113, 111, 105, 102, 0, 0, 0, 2, 0, 0, 0, 2, 4, 0,
                       254, 255, 0, 0, 194, 0, 0, 0, 0, 0, 0, 0, 1>>
       /\ decoded.ok
       /\ decoded.imageData = imageData

\* the RGB channels of the pixels of an image, row-major
RgbOf(img) == [i \in 1..Len(img.data) |-> SubSeq(img.data[i], 1, 3)]

\* C16: scenario S2, the Paeth residual RGB values of the 2x2 image
\* (0,0,0,255), (64,64,64,255), (128,128,128,255), (255,255,255,255) are
\* (0,0,0), (64,64,64), (128,128,128), (127,127,127): the last pixel is
\* predicted from its left neighbour 128
C16_ScenarioS2 ==
  (pc # "input" /\ imageData = GreyRampImage)
    => RgbOf(residual) =
         << <<0, 0, 0>>, <<64, 64, 64>>, <<128, 128, 128>>, <<127, 127, 127>> >>

\* C16 as stated: the fourth residual is (63,63,63)
C16_ScenarioS2AsStated ==
  (pc # "input" /\ imageData = GreyRampImage)
    => RgbOf(residual) =
         << <<0, 0, 0>>, <<64, 64, 64>>, <<128, 128, 128>>, <<63, 63, 63>> >>

\* C16 witness: the residual of the grey ramp has been built and inverted
C16_Witness ==
  /\ pc = "decoded"
  /\ imageData = GreyRampImage
  /\ residual.data[4] = <<127, 127, 127, 255>>
  /\ decoded = GreyRampImage

\* C17: scenario S4, for the input [42,42,42,42,42] the delta stage of
\* encodeHuffman yields the bytes 170,128,128,128,128 (every difference is
\* biased by 128) and the run-length stage yields 170,0xFF,4,128, the
\* symbol stream that is Huffman-coded
C17_ScenarioS4 ==
  (pc # "input" /\ nodal = DegenerateArray)
    => /\ deltaEncode(nodal) = <<170, 128, 128, 128, 128>>
       /\ rleEncode(deltaEncode(nodal)) = <<170, 255, 4, 128>>
       /\ tamper = "none" => huffmanY = encodeHuffman(nodal)

\* C17 as stated: the delta bytes are 170,0,0,0,0 and the run-length stage
\* yields 170,0xFF,4,0
C17_ScenarioS4AsStated ==
  (pc # "input" /\ nodal = DegenerateArray)
    => /\ deltaEncode(nodal) = <<170, 0, 0, 0, 0>>
       /\ rleEncode(deltaEncode(nodal)) = <<170, 255, 4, 0>>

\* C17 witness: the five 42s have been encoded, the payload carrying the
\* four symbols 4, 128, 170, 255 of the run-length stream, and decoded
C17_Witness ==
  /\ pc = "decoded" /\ tamper = "none"
  /\ nodal = DegenerateArray
  /\ huffmanY = <<4, 4, 2, 128, 2, 170, 2, 255, 2, 177>>
  /\ decoded.out = DegenerateArray

\* C19: for every non-empty sequence whose first value and consecutive
\* differences all lie in the delta clamp range [-128, 127],
\* decodeHuffman(encodeHuffman(seq), seq.length) equals seq, however long
\* the run-length symbol stream is relative to seq.length
C19_RoundTripInClampRange ==
  ( /\ pc = "decoded" /\ tamper = "none"
    /\ \A i \in 1..Len(nodal) :
         (nodal[i] - (IF i = 1 THEN 0 ELSE nodal[i - 1])) \in -128..127 )
    => (decoded.ok /\ decoded.out = nodal)

\* the code of length l1 is a prefix of the code of length l2
IsPrefixCode(c1, l1, c2, l2) == l1 <= l2 /\ c2 \div 2 ^ (l2 - l1) = c1

\* the payload's header holds the entries of codeLens in canonical order,
\* their codes are prefix-free, and the tables decodeHuffman rebuilds from
\* the payload read every code back as its symbol
CanonicalCodeValid(codeLens, codes, payload) ==
  LET n == Len(codeLens)
      count == At(payload, 0)
      none == [l \in 0..(MAX_CODE_LEN - 1) |-> -1]
  IN  /\ \A k \in 1..n : /\ At(payload, 2 * k - 1) = codeLens[k].symbol
                         /\ At(payload, 2 * k) = codeLens[k].len
      /\ \A k \in 1..(n - 1) :
           \/ codeLens[k].len < codeLens[k + 1].len
           \/ /\ codeLens[k].len = codeLens[k + 1].len
              /\ codeLens[k].symbol < codeLens[k + 1].symbol
      /\ \A j, k \in 1..n :
           j # k => ~IsPrefixCode(codes[j], codeLens[j].len, codes[k], codeLens[k].len)
      /\ count > 0
      /\ LET read == SortCanonical(HuffmanReadHeader(payload, count))
             symbols == [i \in 1..count |-> read[i].symbol]
             t == HuffmanTables(read, 1, 0, read[1].len, 0,
                                [minCode |-> none, maxCode |-> none, valPtr |-> none])
         IN  \A k \in 1..n :
               HuffmanReadSymbol(t, symbols, codes[k], codeLens[k].len, 0, 0)
                 = [found |-> TRUE, sym |-> codeLens[k].symbol, bitsAvailable |-> 0]

\* the canonical table encodeHuffman builds for data
CodeLensOf(data) == SortCanonical(buildCodeLengths(rleEncode(deltaEncode(data))))

\* C20: for every frequency table of 2 to 256 distinct symbols the entries
\* encodeHuffman writes are in canonical order (length, then symbol), the
\* canonical codes are prefix-free, and the minCode/maxCode/valPtr tables
\* decodeHuffman rebuilds map every codeword back to its symbol
C20_CanonicalCodes ==
  (pc = "encoded" /\ Len(CodeLensOf(nodal)) \in 2..256)
    => CanonicalCodeValid(CodeLensOf(nodal), CanonicalCodes(CodeLensOf(nodal)), huffmanY)

C21_CountByte ==
  (pc = "encoded" /\ Len(CodeLensOf(nodal)) \in 1..256)
    => /\ At(huffmanY, 0) = Len(CodeLensOf(nodal))
       /\ HuffmanReadHeader(huffmanY, At(huffmanY, 0)) = CodeLensOf(nodal)

\* the encoder's locals after the first k pixels of img
QoiEncoderAfter(img, k) ==
  Iterate(LAMBDA s : [k |-> s.k + 1, enc |-> QoiEncodeStep(s.enc, img.data[s.k + 1])],
          [k |-> 0, enc |-> QoiEncoderStart(img)], k).enc

\* the encoder writes QOI_OP_INDEX for pixel number k (from 1) of img
QoiEncoderEmitsIndex(img, k) ==
  LET before == QoiEncoderAfter(img, k - 1)
      c == img.data[k]
  IN  c # before.px /\ before.index[PixelHash(c)] = c

\* C22: QOI index synchronisation.  When the decoder has produced k - 1
\* pixels and the encoder wrote QOI_OP_INDEX for pixel k, the decoder is
\* about to read that op, and slot s of its index holds the pixel, as slot s
\* of the encoder's index did when the op was written
C22_IndexSynchronised ==
  ( /\ qoi.phase = "decode"
    /\ qoi.dec.pxPos < QoiTotalPixels
    /\ QoiEncoderEmitsIndex(imageData, qoi.dec.pxPos + 1) )
    => LET c == imageData.data[qoi.dec.pxPos + 1]
           slot == PixelHash(c)
       IN  /\ QoiDecodeContinues(qoiBytes, QoiTotalPixels, qoi.dec)
           /\ qoi.dec.run = 0
           /\ At(qoiBytes, qoi.dec.p) = QOI_OP_INDEX + slot
           /\ qoi.dec.index[slot] = c
           /\ QoiEncoderAfter(imageData, qoi.dec.pxPos).index[slot] = c

\* C22 witness: the decoder is about to read an INDEX op while its index
\* differs from the encoder's in another slot, written after a RUN op
C22_Witness ==
  /\ qoi.phase = "decode"
  /\ qoi.dec.pxPos < QoiTotalPixels
  /\ QoiEncoderEmitsIndex(imageData, qoi.dec.pxPos + 1)
  /\ qoi.dec.run = 0
  /\ At(qoiBytes, qoi.dec.p) = QOI_OP_INDEX + PixelHash(imageData.data[qoi.dec.pxPos + 1])
  /\ qoi.dec.index # QoiEncoderAfter(imageData, qoi.dec.pxPos).index

\* the ops of a QOI stream after its header, read as the decoder reads them:
\* pixels the sum of the run lengths, ops the number of other ops, p the
\* offset after the last op read
QoiOpCounts(bytes) ==
  Iterate(LAMBDA s :
            IF s.p >= Len(bytes) THEN s
            ELSE LET b1 == At(bytes, s.p) IN
                 IF b1 = QOI_OP_RGB THEN [s EXCEPT !.p = @ + 4, !.ops = @ + 1]
                 ELSE IF b1 = QOI_OP_RGBA THEN [s EXCEPT !.p = @ + 5, !.ops = @ + 1]
                 ELSE IF b1 >= QOI_OP_RUN
                 THEN [s EXCEPT !.p = @ + 1, !.pixels = @ + (b1 % 64) + 1]
                 ELSE IF b1 >= QOI_OP_LUMA THEN [s EXCEPT !.p = @ + 2, !.ops = @ + 1]
                 ELSE [s EXCEPT !.p = @ + 1, !.ops = @ + 1],
          [p |-> 14, pixels |-> 0, ops |-> 0], Len(bytes) - 14)

\* C23: QOI run counter.  After each pixel encodeQOI has processed the
\* pending run counter is in 0..61, and the ops written so far are whole:
\* the lengths of the run ops (bytes 0xC0..0xFD, never 0xFE or 0xFF), the
\* number of other ops and the pending run add up to the pixels processed;
\* in the returned stream they add up to W*H
C23_RunCounter ==
  /\ qoi.phase = "encode"
       => LET c == QoiOpCounts(qoi.enc.bytes)
          IN  /\ qoi.enc.run \in 0..61
              /\ c.p = Len(qoi.enc.bytes)
              /\ c.pixels + c.ops + qoi.enc.run = qoi.k
  /\ qoi.phase \in {"decode", "done"}
       => LET c == QoiOpCounts(SubSeq(qoiBytes, 1, Len(qoiBytes) - 8))
          IN  /\ c.p = Len(qoiBytes) - 8
              /\ c.pixels + c.ops = QoiTotalPixels

\* C23 witness: the 62nd pixel of a run has just been processed: the
\* counter is back at 0 and the last byte written is 0xFD
C23_Witness ==
  /\ qoi.phase = "encode"
  /\ qoi.k >= 62
  /\ qoi.enc.run = 0
  /\ imageData.data[qoi.k] = imageData.data[qoi.k - 61]
  /\ qoi.enc.bytes[Len(qoi.enc.bytes)] = QOI_OP_RUN + 61
  /\ QoiOpCounts(qoi.enc.bytes).pixels >= 62

\* maxSize of encodeQOI: the length of its pre-sized buffer
QoiMaxSize(img) == 14 + img.width * img.height * 5 + 8

\* C24: QOI output bound.  While encodeQOI runs, the bytes written so far
\* plus one byte for a pending run are at most 14 + 5 * (pixels processed),
\* so no write lands at or past maxSize = 14 + 5*W*H + 8; the returned
\* stream, end marker included, is at most maxSize long
C24_OutputBound ==
  /\ qoi.phase = "encode"
       => /\ Len(qoi.enc.bytes) + (IF qoi.enc.run > 0 THEN 1 ELSE 0) <= 14 + 5 * qoi.k
          /\ Len(qoi.enc.bytes) + (IF qoi.enc.run > 0 THEN 1 ELSE 0) + 8
               <= QoiMaxSize(imageData)
  /\ qoi.phase \in {"decode", "done"} => Len(qoiBytes) <= QoiMaxSize(imageData)

\* C24 witness: every pixel of an image of two or more pixels took an RGBA
\* op, and the returned stream fills the buffer
C24_Witness ==
  /\ qoi.phase = "decode"
  /\ QoiTotalPixels >= 2
  /\ Len(qoi.enc.bytes) = 14 + 5 * qoi.k
  /\ Len(qoiBytes) = QoiMaxSize(imageData)

\* C25: container round trip.  parseContainer of the bytes buildContainer
\* wrote returns version 1, the input's width and height, blockSize clamped
\* to 2..255, discardBits clamped to 0..255, the same smooth flag, totalSize
\* equal to the buffer length, and the four sections byte-identical to the
\* inputs, taken from the payload in the order qoi, Y, Cb, Cr
C25_ContainerRoundTrip ==
  (pc = "parsed" /\ tamper = "none")
    => /\ decoded.ok
       /\ decoded.version = 1
       /\ decoded.width = input.width /\ decoded.height = input.height
       /\ decoded.blockSize = Max(2, Min(255, input.blockSize))
       /\ decoded.discardBits = Max(0, Min(255, input.discardBits))
       /\ decoded.smooth = input.smooth
       /\ decoded.totalSize = Len(container)
       /\ decoded.qoi = input.qoi /\ decoded.huffmanY = input.huffmanY
       /\ decoded.huffmanCb = input.huffmanCb /\ decoded.huffmanCr = input.huffmanCr
       /\ container = SubSeq(container, 1, HEADER_SIZE)
                        \o decoded.qoi \o decoded.huffmanY
                        \o decoded.huffmanCb \o decoded.huffmanCr

\* C25 witness: a parsed container whose block size and discardBits were
\* clamped, whose width needs all four bytes, and whose Y and Cb sections
\* differ
C25_Witness ==
  /\ pc = "parsed" /\ tamper = "none"
  /\ input.blockSize > 255 /\ decoded.blockSize = 255
  /\ input.discardBits > 255 /\ decoded.discardBits = 255
  /\ input.width > 65535 /\ decoded.width = input.width
  /\ input.smooth /\ decoded.smooth
  /\ input.qoi # << >> /\ input.huffmanCr # << >>
  /\ input.huffmanY # << >> /\ input.huffmanCb # << >>
  /\ input.huffmanY # input.huffmanCb
  /\ decoded.huffmanY = input.huffmanY /\ decoded.huffmanCb = input.huffmanCb

\* the unread-bit counts of the main decode loop of decodeHuffman(data, expected)
DecodeUnreadBits(data, expected) ==
  LET count == At(data, 0)
      codeLens == SortCanonical(HuffmanReadHeader(data, count))
      symbols == [i \in 1..count |-> codeLens[i].symbol]
      none == [l \in 0..(MAX_CODE_LEN - 1) |-> -1]
      t == HuffmanTables(codeLens, 1, 0, codeLens[1].len, 0,
                         [minCode |-> none, maxCode |-> none, valPtr |-> none])
  IN  HuffmanUnreadBits(data, t, symbols, codeLens[1].len, expected * 2,
                        [p |-> 1 + 2 * count, accumulator |-> 0, bitsAvailable |-> 0], 0)

\* what the symbols encodeHuffman wrote for data decode to, the padding
\* bits of the last byte left out: the first 2 * expected symbols at most,
\* run-length and delta decoded into expected values
RealSymbolsDecode(data, expected) ==
  LET rle == rleEncode(deltaEncode(data))
      out == RleDeltaDecode(SubSeq(rle, 1, Min(Len(rle), 2 * expected)), 0, << >>, expected)
  IN  out \o Zeros(expected - Len(out))

\* decodeHuffman on a non-empty payload with at least one entry and
\* expectedLength >= 1 returns expectedLength bytes, and every iteration of
\* its symbol loop but the last reads at least one bit
DecodeTerminates ==
  /\ decoded.ok
  /\ Len(decoded.out) = expectedLength
  /\ 1 + 2 * At(huffmanY, 0) <= Len(huffmanY)
       => LET bits == DecodeUnreadBits(huffmanY, expectedLength)
          IN  \A i \in 1..(Len(bits) - 2) : bits[i + 1] < bits[i]

\* C26: decodeHuffman terminates and returns exactly expectedLength bytes
\* for every non-empty payload whose header declares at least one entry and
\* every expectedLength >= 1: every iteration of the symbol loop reads at
\* least one bit or exits, and the zero padding bits after the last symbol
\* change none of the first expectedLength output values
C26_DecodeTerminates ==
  (pc = "decoded" /\ huffmanY # << >> /\ At(huffmanY, 0) >= 1 /\ expectedLength >= 1)
    => /\ DecodeTerminates
       /\ tamper \in {"none", "length"}
            => decoded.out = RealSymbolsDecode(nodal, expectedLength)

\* C27: nodal value invariant.  Every entry of nodalPointsY, nodalPointsCb
\* and nodalPointsCr returned by processImageFrame is an integer in 0..255
\* and a multiple of 2^d, d = clamp(discardBits, 0, 6), and every tile of
\* the grid covers at least one pixel
C27_NodalValues ==
  pc \in {"encoded", "decoded"}
    => LET d == Min(6, Max(0, discardBits))
           block == Max(2, blockSize)
           gridWidth == CeilDiv(imageData.width, block)
           gridHeight == CeilDiv(imageData.height, block)
           InRange(n) ==
             /\ Len(n) = gridWidth * gridHeight
             /\ \A i \in 1..Len(n) : n[i] \in 0..255 /\ n[i] % (2 ^ d) = 0
       IN  /\ InRange(processed.nodalPointsY)
           /\ InRange(processed.nodalPointsCb)
           /\ InRange(processed.nodalPointsCr)
           /\ \A gx \in 0..(gridWidth - 1), gy \in 0..(gridHeight - 1) :
                TilePixels(imageData.width, imageData.height, block, gx, gy) # {}

\* C27 witness: discardBits above 6 on the mixed image with a partial tile:
\* the nodes are multiples of 64, some of them not 0
C27_Witness ==
  /\ pc = "encoded"
  /\ imageData = MixedImage /\ blockSize = 2 /\ discardBits = 7
  /\ Len(processed.nodalPointsY) = 2
  /\ \A i \in 1..2 : processed.nodalPointsY[i] % 64 = 0
  /\ \E i \in 1..2 : processed.nodalPointsY[i] > 0
  /\ \E i \in 1..2 : processed.nodalPointsCb[i] > 0

\* C28: the batch queue is sequential: at most one /api/compress request
\* is awaited and at most one item shows "processing" at any time, and
\* items are started in list order (an item is past "pending" only when
\* every item before it is done or in error).
BatchProcessing == {k \in 1..Len(batch.items) : batch.items[k].status = "processing"}

C28_BatchSequential ==
  /\ Len(batch.runs) <= 1
  /\ Cardinality(BatchProcessing) <= 1
  /\ \A k \in 1..Len(batch.items) :
       batch.items[k].status # "pending" =>
         \A j \in 1..(k - 1) : batch.items[j].status \in {"done", "error"}

\* C29: Reset is final: once the files are cleared no item of the
\* discarded batch is shown, whatever responses arrive afterwards.
C29_ResetFinal ==
  batch.files = << >> => batch.items = << >>

\* C30: whenever no POST /api/log-csv handler is in progress the file
\* starts with the header, holds it exactly once, and holds the row of
\* every request that was answered { ok: true }.
LogAnswered == {h \in 1..Len(log.handlers) : log.handlers[h] = "ok"}

C30_CsvLogIntegrity ==
  (log.handlers # << >> /\ LogAnswered = 1..Len(log.handlers)) =>
    /\ log.exists
    /\ log.lines # << >> /\ log.lines[1] = CSV_HEADER
    /\ Cardinality({k \in 1..Len(log.lines) : log.lines[k] = CSV_HEADER}) = 1
    /\ \A h \in LogAnswered : \E k \in 1..Len(log.lines) : log.lines[k] = h

====
